---------------------------- MODULE Spec2Model ----------------------------
(***************************************************************************)
(* Model of the concurrent scanning engine of hog-sys/scout:               *)
(*   src/market_scout.py            MarketScout (fetch layer, strategies)  *)
(*   src/scout_manager.py           ScoutManager (workers, start/stop)     *)
(*   src/src/scouts/base_scout.py   BaseScout (initialize/publish/cleanup) *)
(*                                                                         *)
(* asyncio coroutines are modelled at the granularity of their suspension  *)
(* points: one action is the code a coroutine runs between two awaits that *)
(* can actually suspend it.  Network calls are answered by the environment *)
(* (a ticker payload, an exception, or a cancellation of the task).        *)
(***************************************************************************)
EXTENDS Integers, Sequences, FiniteSets, Bags, TLC

VARIABLES
    tasks,          \* bag of the fetch coroutines that are currently alive
    semaphore,      \* free permits of self.semaphore
    rate_limiters,  \* exchange -> free permits of self.rate_limiters[exchange]
    cancelled_at,   \* observer: the permit waits in which tasks were cancelled
    responsive,     \* environment: the exchanges that answer requests at all
    ticker_cache,   \* dict  <<exchange, symbol>> -> [data, timestamp]
    price_history,  \* <<symbol, exchange>> -> sequence of [price, timestamp]
    exchange_stats, \* exchange -> [errors]
    now,            \* wall clock (datetime.now()), in whole seconds
    ready,          \* event loop: coroutines wrapped by gather, not yet run
    exchange_symbols, \* exchange -> exchange.symbols
    builder,        \* the call of _build_price_matrix: its locals
    strategies,     \* strategy -> [pc, signals]: the coroutines of scan()
    scout,          \* scan(): [pc, scan_count, opportunities, error_count]
    manager,        \* ScoutManager: [running, scouts_started, errors_count]
    workers,        \* worker id -> the position of _run_scout_worker
    instances,      \* scout name -> the scout instance: [state, exchanges]
    control,        \* the positions of start_scouts(), stop() and the monitor
    publishing,     \* worker id -> the locals of its tick at line 106
    market_cache,   \* exchange -> self.market_cache[exchange]['symbols']
    volume_history, \* <<symbol, exchange>> -> sequence of [volume]
    created         \* the signals create_opportunity has returned, in order

fetchVars == <<tasks, semaphore, rate_limiters, cancelled_at, responsive>>
dataVars  == <<ticker_cache, price_history, exchange_stats>>
scoutVars == <<ready, exchange_symbols, builder, strategies, scout>>
managerVars == <<manager, workers, instances, control, publishing>>
signalVars == <<market_cache, volume_history, created>>
vars == <<tasks, semaphore, rate_limiters, cancelled_at, responsive,
          ticker_cache, price_history, exchange_stats, now,
          ready, exchange_symbols, builder, strategies, scout,
          manager, workers, instances, control, publishing,
          market_cache, volume_history, created>>

---------------------------------------------------------------------------
(* Sizes.  The two semaphore capacities are the program's 100 and 10 scaled *)
(* down so that the model can saturate them.                                *)

GlobalLimit == 2
ExchangeLimit == 1
MaxTasks == 3
MaxErrors == 1
HistoryCap == 2

cache_ttl == 60
SecondsPerDay == 86400

Exchanges == {"binance", "okx"}
Symbols == {"BTC/USDT", "ETH/USDT"}
Keys == Exchanges \X Symbols

\* A well-formed answer of exchange.fetch_ticker(symbol).
GoodTicker == [bid |-> 100, ask |-> 101, baseVolume |-> 1000, last |-> 100,
               percentage |-> 0]

---------------------------------------------------------------------------
(* Fetch coroutines.  A task is a record                                   *)
(*   kind  : "ticker" | "orderbook" | "markets"                            *)
(*   owner : who awaits its result ("free": a caller that only awaits it)  *)
(*   ex, sym : its arguments;  t0 : `now` read at line 213                 *)
(*   pc    : "waitGlobal" | "waitExchange" | "inflight" | "done"           *)
(*   res   : <<>> for None / no result yet, <<d>> for a returned value d   *)
(*   via   : how it ended: "" (not yet), "cache" (line 219), "fetch"       *)
(*           (line 254), "error" (line 259)                                *)

Task(kind, owner, e, s, pc, t0, res, via) ==
    [kind |-> kind, owner |-> owner, ex |-> e, sym |-> s, pc |-> pc,
     t0 |-> t0, res |-> res, via |-> via]

Live == BagToSet(tasks)
Add(r) == tasks (+) SetToBag({r})
Remove(r) == tasks (-) SetToBag({r})
Replace(r, r2) == (tasks (-) SetToBag({r})) (+) SetToBag({r2})

\* The coroutine returns `res`: a caller that gathers keeps the finished
\* task until it reads the result, a free caller drops it at once.
Finish(r, res, via) ==
    IF r.owner = "free" THEN Remove(r)
    ELSE Replace(r, [r EXCEPT !.pc = "done", !.res = res, !.via = via])

\* timedelta.seconds: the seconds field of a non-negative timedelta, the
\* days are a separate field that line 218 does not read.
Seconds(delta) == delta % SecondsPerDay

\* lines 216-219: the entry exists and (now - timestamp).seconds < cache_ttl
CacheHit(key, t) ==
    /\ key \in DOMAIN ticker_cache
    /\ Seconds(t - ticker_cache[key].timestamp) < cache_ttl

CachePut(key, data, t) ==
    [k \in (DOMAIN ticker_cache) \cup {key} |->
        IF k = key THEN [data |-> data, timestamp |-> t] ELSE ticker_cache[k]]

HistoryAppendKeepsOldest(h, sample) ==
    IF Len(h) >= HistoryCap THEN h ELSE Append(h, sample)

\* lines 244-252: append, then keep the last HistoryCap samples
HistoryAppend(h, sample) ==
    LET h2 == Append(h, sample)
    IN  IF Len(h2) > HistoryCap
        THEN SubSeq(h2, Len(h2) - HistoryCap + 1, Len(h2))
        ELSE h2

\* lines 232-238
ResultOf(ticker) ==
    [bid |-> ticker.bid, ask |-> ticker.ask, volume |-> ticker.baseVolume,
     last |-> ticker.last, change |-> ticker.percentage]

TickerAdmitPcNoExchangeLimit(e) ==
    IF semaphore = 0 THEN "waitGlobal" ELSE "inflight"

\* Where a ticker coroutine first suspends once it is past the cache check:
\* `async with self.semaphore` and `async with self.rate_limiters[e]` do not
\* suspend while a permit is free (lines 222-226).
TickerAdmitPc(e) ==
    IF semaphore = 0 THEN "waitGlobal"
    ELSE IF rate_limiters[e] = 0 THEN "waitExchange"
    ELSE "inflight"

\* The permits a ticker coroutine takes on its way to `pc` from the wait for
\* the global permit.
TakeTickerPermits(e, pc) ==
    /\ semaphore' = IF pc = "waitGlobal" THEN semaphore ELSE semaphore - 1
    /\ rate_limiters' = IF pc = "inflight"
                        THEN [rate_limiters EXCEPT ![e] = @ - 1]
                        ELSE rate_limiters

\* _fetch_ticker_with_cache, lines 210-226, up to its first suspension.
CallFetchTicker(owner, e, s) ==
    /\ IF CacheHit(<<e, s>>, now)
       THEN /\ tasks' = IF owner = "free" THEN tasks
                        ELSE Add(Task("ticker", owner, e, s, "done", now,
                                      <<ticker_cache[<<e, s>>].data>>, "cache"))
            /\ UNCHANGED <<semaphore, rate_limiters>>
       ELSE LET pc == TickerAdmitPc(e)
            IN  /\ tasks' = Add(Task("ticker", owner, e, s, pc, now, <<>>, ""))
                /\ TakeTickerPermits(e, pc)
    /\ UNCHANGED <<cancelled_at, responsive, dataVars, now>>

\* A ticker coroutine blocked on self.semaphore is woken with a permit free.
AcquireGlobal(r) ==
    /\ r \in Live /\ r.kind = "ticker" /\ r.pc = "waitGlobal"
    /\ semaphore > 0
    /\ LET pc == TickerAdmitPc(r.ex)
       IN  /\ tasks' = Replace(r, [r EXCEPT !.pc = pc])
           /\ TakeTickerPermits(r.ex, pc)
    /\ UNCHANGED <<cancelled_at, responsive, dataVars, now, scoutVars, managerVars,
                   signalVars>>

\* A ticker coroutine blocked on self.rate_limiters[e] is woken (line 223).
AcquireExchange(r) ==
    /\ r \in Live /\ r.kind = "ticker" /\ r.pc = "waitExchange"
    /\ rate_limiters[r.ex] > 0
    /\ rate_limiters' = [rate_limiters EXCEPT ![r.ex] = @ - 1]
    /\ tasks' = Replace(r, [r EXCEPT !.pc = "inflight"])
    /\ UNCHANGED <<semaphore, cancelled_at, responsive, dataVars, now, scoutVars, managerVars,
                   signalVars>>

ReleaseTickerPermitsKeepsExchange(e) ==
    /\ rate_limiters' = rate_limiters
    /\ semaphore' = semaphore + 1

\* Leaving both `async with` blocks of lines 222-223.
ReleaseTickerPermits(e) ==
    /\ rate_limiters' = [rate_limiters EXCEPT ![e] = @ + 1]
    /\ semaphore' = semaphore + 1

\* exchange.fetch_ticker answers `ticker`: lines 226-254.  The request
\* statistics of line 230 (_update_exchange_stats, whose body the file does
\* not hold) are not kept.
FetchTickerReturns(r, ticker) ==
    /\ r \in Live /\ r.kind = "ticker" /\ r.pc = "inflight"
    /\ r.ex \in responsive
    /\ LET result == ResultOf(ticker)
           key == <<r.ex, r.sym>>
           hk == <<r.sym, r.ex>>
       IN  /\ ticker_cache' = CachePut(key, result, r.t0)
           /\ price_history' = [price_history EXCEPT ![hk] =
                  HistoryAppend(@, [price |-> ticker.last, timestamp |-> r.t0])]
           /\ tasks' = Finish(r, <<result>>, "fetch")
    /\ ReleaseTickerPermits(r.ex)
    /\ UNCHANGED <<cancelled_at, responsive, exchange_stats, now, scoutVars, managerVars,
                   signalVars>>

RequestNeverTimesOut(r) == FALSE

\* The request of task r is given up after the session's total timeout
\* (aiohttp.ClientTimeout(total=30)), whether or not the exchange answers.
RequestTimesOut(r) == r.pc = "inflight"

FetchTickerRaisesUncounted(r) ==
    /\ r \in Live /\ r.kind = "ticker" /\ r.pc = "inflight"
    /\ r.ex \in responsive \/ RequestTimesOut(r)
    /\ tasks' = Finish(r, <<>>, "error")
    /\ ReleaseTickerPermits(r.ex)
    /\ UNCHANGED <<cancelled_at, responsive, dataVars, now, scoutVars, managerVars,
                   signalVars>>

FetchTickerRaisesKeepsPermits(r) ==
    /\ r \in Live /\ r.kind = "ticker" /\ r.pc = "inflight"
    /\ r.ex \in responsive \/ RequestTimesOut(r)
    /\ exchange_stats' = [exchange_stats EXCEPT ![r.ex].errors = @ + 1]
    /\ tasks' = Finish(r, <<>>, "error")
    /\ UNCHANGED <<semaphore, rate_limiters, cancelled_at, responsive, ticker_cache,
                   price_history, now, scoutVars, managerVars, signalVars>>

\* exchange.fetch_ticker raises (an error answer, a bad payload or the
\* timeout): lines 256-259.
FetchTickerRaises(r) ==
    /\ r \in Live /\ r.kind = "ticker" /\ r.pc = "inflight"
    /\ r.ex \in responsive \/ RequestTimesOut(r)
    /\ exchange_stats' = [exchange_stats EXCEPT ![r.ex].errors = @ + 1]
    /\ tasks' = Finish(r, <<>>, "error")
    /\ ReleaseTickerPermits(r.ex)
    /\ UNCHANGED <<cancelled_at, responsive, ticker_cache, price_history, now, scoutVars, managerVars,
                   signalVars>>

\* _analyze_orderbook, lines 404-409, up to its first suspension.
CallAnalyzeOrderbook(owner, e, s) ==
    /\ IF semaphore > 0
       THEN /\ semaphore' = semaphore - 1
            /\ tasks' = Add(Task("orderbook", owner, e, s, "inflight", now, <<>>, ""))
       ELSE /\ UNCHANGED semaphore
            /\ tasks' = Add(Task("orderbook", owner, e, s, "waitGlobal", now, <<>>, ""))
    /\ UNCHANGED <<rate_limiters, cancelled_at, responsive, dataVars, now>>

\* An order-book coroutine blocked on self.semaphore is woken (line 407).
AcquireGlobalOrderbook(r) ==
    /\ r \in Live /\ r.kind = "orderbook" /\ r.pc = "waitGlobal"
    /\ semaphore > 0
    /\ semaphore' = semaphore - 1
    /\ tasks' = Replace(r, [r EXCEPT !.pc = "inflight"])
    /\ UNCHANGED <<rate_limiters, cancelled_at, responsive, dataVars, now, scoutVars, managerVars,
                   signalVars>>

\* exchange.fetch_order_book answers or raises: lines 409-458.  Either way
\* the coroutine leaves `async with self.semaphore` and returns: the signal
\* of line 454 if the book is imbalanced, else None.
OrderbookEnds(r, imbalanced) ==
    /\ r \in Live /\ r.kind = "orderbook" /\ r.pc = "inflight"
    /\ r.ex \in responsive \/ RequestTimesOut(r)
    /\ semaphore' = semaphore + 1
    /\ tasks' = Finish(r, IF imbalanced
                          THEN <<<<"orderbook_imbalance", r.sym, r.ex>>>>
                          ELSE <<>>, "fetch")
    /\ UNCHANGED <<rate_limiters, cancelled_at, responsive, dataVars, now, scoutVars, managerVars,
                   signalVars>>

\* _scan_new_listings, line 470: exchange.load_markets() is awaited with no
\* permit of either semaphore.
CallLoadMarkets(owner, e) ==
    /\ tasks' = Add(Task("markets", owner, e, "", "inflight", now, <<>>, ""))
    /\ UNCHANGED <<semaphore, rate_limiters, cancelled_at, responsive, dataVars, now>>

\* exchange.load_markets answers or raises (lines 470-499).
LoadMarketsEnds(r) ==
    /\ r \in Live /\ r.kind = "markets" /\ r.pc = "inflight"
    /\ r.ex \in responsive \/ RequestTimesOut(r)
    /\ tasks' = Finish(r, <<>>, "fetch")
    /\ UNCHANGED <<semaphore, rate_limiters, cancelled_at, responsive, dataVars, now, scoutVars, managerVars,
                   signalVars>>

\* The permits a coroutine holds at its suspension point.
HoldsGlobal(r) ==
    \/ r.kind = "ticker" /\ r.pc \in {"waitExchange", "inflight"}
    \/ r.kind = "orderbook" /\ r.pc = "inflight"
HoldsExchange(r, e) == r.kind = "ticker" /\ r.pc = "inflight" /\ r.ex = e

\* The `async with` blocks a cancelled coroutine unwinds through: a waiter on
\* the per-exchange semaphore is inside `async with self.semaphore` (line 222).
UnwindsGlobalLeaky(r) == r.pc = "inflight" /\ r.kind \in {"ticker", "orderbook"}
UnwindsGlobal(r) == HoldsGlobal(r)
UnwindsExchange(r, e) == HoldsExchange(r, e)

\* The task is cancelled at its suspension point: CancelledError is not an
\* Exception, so no handler of lines 256 and 456 catches it, and each
\* `async with` it unwinds through releases the permit it acquired.
Cancel(r) ==
    /\ r \in Live /\ r.pc \in {"waitGlobal", "waitExchange", "inflight"}
    /\ tasks' = IF r.owner = "free" THEN Remove(r)
                ELSE Replace(r, [r EXCEPT !.pc = "cancelled"])
    /\ semaphore' = IF UnwindsGlobal(r) THEN semaphore + 1 ELSE semaphore
    /\ rate_limiters' = [e \in Exchanges |->
          IF UnwindsExchange(r, e) THEN rate_limiters[e] + 1 ELSE rate_limiters[e]]
    /\ cancelled_at' = cancelled_at \cup ({r.pc} \ {"inflight"})
    /\ UNCHANGED <<responsive, dataVars, now, scoutVars, managerVars, signalVars>>

---------------------------------------------------------------------------
(* The fetch layer under arbitrary callers: every strategy of every worker *)
(* may call a fetch coroutine at any time (scan(), lines 115-123), every   *)
(* request may be answered, fail or be cancelled.  The clock stands still. *)

InitData ==
    /\ ticker_cache = <<>>
    /\ price_history = [k \in Symbols \X Exchanges |-> <<>>]
    /\ exchange_stats = [e \in Exchanges |-> [errors |-> 0]]

\* scan(), lines 115-121: the strategies in the order gather wraps them.
StrategyList == <<"arbitrage", "volume", "price_movements", "orderbook",
                  "new_listings">>
Strategies == {StrategyList[i] : i \in DOMAIN StrategyList}

\* _build_price_matrix before its first call.
IdleBuilder == [pc |-> "idle", task_info |-> <<>>, results |-> <<>>,
                price_matrix |-> <<>>]

\* The scout between two calls of scan(); every exchange lists every symbol.
\* scan_count and error_count are not initialised in the files: they start
\* at 0 here.
InitScout ==
    /\ ready = <<>>
    /\ exchange_symbols = [e \in Exchanges |-> Symbols]
    /\ builder = IdleBuilder
    /\ strategies = [n \in Strategies |-> [pc |-> "idle", signals |-> {}]]
    /\ scout = [pc |-> "idle", scan_count |-> 0, opportunities |-> {},
               error_count |-> 0]

\* _init_single_exchange, lines 95-99: the market cache holds the symbols of
\* the exchange; no volume sample is stored and no signal is created yet
\* (lines 47-48).
InitSignals ==
    /\ market_cache = exchange_symbols
    /\ volume_history = [k \in Symbols \X Exchanges |-> <<>>]
    /\ created = <<>>

\* The enabled scouts of scouts_config, in its order (line 67), and their
\* worker tasks.
ScoutList == <<"market", "defi">>
ScoutNames == {ScoutList[i] : i \in DOMAIN ScoutList}
Workers == {1, 2}

\* ScoutManager.__init__, lines 19-33: no scout is constructed, no worker
\* exists yet.
InitManager ==
    /\ manager = [running |-> FALSE, scouts_started |-> 0, errors_count |-> 0]
    /\ workers = [w \in Workers |-> [pc |-> "none", wake |-> 0]]
    /\ instances = [n \in ScoutNames |-> [state |-> "none", exchanges |-> {}]]
    /\ control = [start |-> "idle", stop |-> "idle",
                  monitor |-> [pc |-> "none", wake |-> 0]]
    /\ publishing = [w \in Workers |-> [opportunities |-> <<>>, tasks |-> <<>>]]

InitFetch ==
    /\ tasks = EmptyBag
    /\ semaphore = GlobalLimit
    /\ rate_limiters = [e \in Exchanges |-> ExchangeLimit]
    /\ cancelled_at = {}

Init ==
    /\ InitFetch
    /\ responsive = Exchanges
    /\ InitData
    /\ now = 0
    /\ InitScout
    /\ InitManager
    /\ InitSignals

\* Some strategy of some worker calls a fetch coroutine.  The permits do not
\* depend on the symbol: the free callers ask for one symbol.
FreeSymbols == {"BTC/USDT"}

FreeCall ==
    /\ BagCardinality(tasks) < MaxTasks
    /\ \/ \E e \in Exchanges, s \in FreeSymbols : CallFetchTicker("free", e, s)
       \/ \E e \in Exchanges, s \in FreeSymbols : CallAnalyzeOrderbook("free", e, s)
       \/ \E e \in Exchanges : CallLoadMarkets("free", e)
    /\ UNCHANGED <<scoutVars, managerVars, signalVars>>

Next ==
    \/ FreeCall
    \/ \E r \in Live : AcquireGlobal(r)
    \/ \E r \in Live : AcquireExchange(r)
    \/ \E r \in Live : AcquireGlobalOrderbook(r)
    \/ \E r \in Live : FetchTickerReturns(r, GoodTicker)
    \/ \E r \in Live : exchange_stats[r.ex].errors < MaxErrors /\ FetchTickerRaises(r)
    \/ \E r \in Live, imbalanced \in BOOLEAN : OrderbookEnds(r, imbalanced)
    \/ \E r \in Live : LoadMarketsEnds(r)
    \/ \E r \in Live : Cancel(r)

Spec == Init /\ [][Next]_vars

---------------------------------------------------------------------------
(* Counting the live coroutines.                                           *)

\* The number of live coroutines among the task records S.
CountIn(S) ==
    LET T == S \cap Live
    IN  IF T = {} THEN 0 ELSE BagCardinality([r \in T |-> tasks[r]])

InFlightTo(e) ==
    CountIn({r \in Live : r.pc = "inflight" /\ r.ex = e
                          /\ r.kind \in {"ticker", "orderbook"}})
TotalInFlight == CountIn({r \in Live : r.pc = "inflight"})

HoldersGlobal == CountIn({r \in Live : HoldsGlobal(r)})
WaitersGlobal == CountIn({r \in Live : r.pc = "waitGlobal"})
HoldersOf(e) == CountIn({r \in Live : HoldsExchange(r, e)})
WaitersOf(e) == CountIn({r \in Live : r.pc = "waitExchange" /\ r.ex = e})

---------------------------------------------------------------------------
(* Claims about the rate limiter, checked under Spec.                      *)

\* C1: at every moment the number of in-flight ticker and order-book
\* requests addressed to one exchange is at most the per-exchange limit.
C1_PerExchangeInFlightBounded ==
    \A e \in Exchanges : InFlightTo(e) <= ExchangeLimit

C3_Held ==
    /\ HoldersGlobal <= GlobalLimit
    /\ \A e \in Exchanges : HoldersOf(e) <= ExchangeLimit
    /\ \A e \in Exchanges :
          WaitersOf(e) > 0 /\ rate_limiters[e] > 0
              => ENABLED (\E r \in Live : AcquireExchange(r))
    /\ WaitersGlobal > 0 /\ semaphore > 0
          => ENABLED (\E r \in Live : AcquireGlobal(r) \/ AcquireGlobalOrderbook(r))

C3_Step ==
    /\ \A e \in Exchanges :
          LET callers == WaitersOf(e) + HoldersOf(e)
              callers2 == WaitersOf(e)' + HoldersOf(e)'
          IN  /\ callers2 > callers =>
                   IF rate_limiters[e] > 0
                   THEN HoldersOf(e)' = HoldersOf(e) + 1 /\ WaitersOf(e)' = WaitersOf(e)
                   ELSE WaitersOf(e)' = WaitersOf(e) + 1 /\ HoldersOf(e)' = HoldersOf(e)
                        /\ HoldersOf(e) = ExchangeLimit
              /\ HoldersOf(e)' > HoldersOf(e) => rate_limiters[e] > 0
    /\ LET callers == WaitersGlobal + HoldersGlobal
           callers2 == WaitersGlobal' + HoldersGlobal'
       IN  /\ callers2 > callers =>
                IF semaphore > 0
                THEN HoldersGlobal' = HoldersGlobal + 1 /\ WaitersGlobal' = WaitersGlobal
                ELSE WaitersGlobal' = WaitersGlobal + 1 /\ HoldersGlobal' = HoldersGlobal
                     /\ HoldersGlobal = GlobalLimit
           /\ HoldersGlobal' > HoldersGlobal => semaphore > 0

C3_NPlusOneAcquires == [](C3_Held) /\ [][C3_Step]_vars

\* C3 witness: N+1 callers of one exchange's limiter, N of them hold a
\* permit and the last one is blocked.
C3_Witness ==
    \E e \in Exchanges : HoldersOf(e) = ExchangeLimit /\ WaitersOf(e) = 1

\* C4: once a task was cancelled while it waited for a permit, the free
\* permits plus the permits held by live tasks still equal the capacity of
\* each semaphore.
C4_NoPermitLeak ==
    cancelled_at # {} =>
        /\ semaphore + HoldersGlobal = GlobalLimit
        /\ \A e \in Exchanges : rate_limiters[e] + HoldersOf(e) = ExchangeLimit

\* C4 witness: tasks were cancelled in both waits, and live tasks hold permits.
C4_Witness ==
    /\ cancelled_at = {"waitGlobal", "waitExchange"}
    /\ HoldersGlobal > 0

---------------------------------------------------------------------------
(* The ticker cache under a moving clock: one lookup is awaited at a time   *)
(* (line 286), the clock moves between the steps.                          *)

\* The instants datetime.now() takes: a write instant, the last second
\* before the entry expires, the expiry, and one day and a second later.
ClockValues == {0, cache_ttl - 1, cache_ttl, SecondsPerDay + 1}

Tick ==
    /\ \E t \in ClockValues : t > now /\ now' = t
    /\ UNCHANGED <<fetchVars, dataVars, scoutVars, managerVars, signalVars>>

\* _analyze_volume_spike, lines 282-286: a caller that awaits the lookup of
\* one pair.
CallLookup(e, s) ==
    /\ CallFetchTicker("lookup", e, s)
    /\ UNCHANGED <<scoutVars, managerVars, signalVars>>

\* line 286: the lookup has returned, the caller takes its result.
LookupReturns(r) ==
    /\ r \in Live /\ r.owner = "lookup" /\ r.pc = "done"
    /\ tasks' = Remove(r)
    /\ UNCHANGED <<semaphore, rate_limiters, cancelled_at, responsive, dataVars, now, scoutVars, managerVars,
                   signalVars>>

NextCache ==
    \/ /\ tasks = EmptyBag
       /\ \E e \in Exchanges, s \in FreeSymbols : CallLookup(e, s)
    \/ \E r \in Live : FetchTickerReturns(r, GoodTicker)
    \/ \E r \in Live : exchange_stats[r.ex].errors < MaxErrors /\ FetchTickerRaises(r)
    \/ \E r \in Live : LookupReturns(r)
    \/ Tick

SpecCache == Init /\ [][NextCache]_vars

\* C5: a lookup returns the cached snapshot exactly if an entry exists and
\* now - capturedAt < cache_ttl: a lookup that has returned a snapshot
\* returned one younger than cache_ttl at the time of the lookup (the
\* snapshot it fetched itself has age 0), and a lookup goes to the exchange
\* only if there is no entry younger than cache_ttl.
C5_HitIffFresh ==
    \A r \in Live :
        r.kind = "ticker" /\ r.owner = "lookup" =>
            LET key == <<r.ex, r.sym>>
                fresh == /\ key \in DOMAIN ticker_cache
                         /\ r.t0 - ticker_cache[key].timestamp < cache_ttl
            IN  /\ r.pc = "done" /\ r.res # <<>> => fresh
                /\ r.pc # "done" => ~fresh

---------------------------------------------------------------------------
(* The event loop and the arbitrage strategy with its price matrix         *)
(* builder.  gather wraps each coroutine in a task and the loop runs the   *)
(* tasks' first steps in the order of their creation (`ready`).            *)

SymbolList == <<"BTC/USDT", "ETH/USDT">>
ExchangeList == <<"binance", "okx">>

\* line 24: min_profit_pct = 0.1 (percent), here in tenths of a percent.
MinProfitPerMille == 1

\* A payload field that is not a number (lines 233-237 copy the fields of
\* the payload unchecked).
NotANumber == -1

HighTicker == [bid |-> 103, ask |-> 104, baseVolume |-> 1000, last |-> 103,
               percentage |-> 3]
BadTicker == [bid |-> NotANumber, ask |-> 104, baseVolume |-> 1000,
              last |-> 103, percentage |-> 3]

\* What exchange e answers to fetch_ticker when it answers well.
TickerOf(e) == IF e = "binance" THEN GoodTicker ELSE HighTicker

Coro(kind, owner, e, s) == [kind |-> kind, owner |-> owner, ex |-> e, sym |-> s]

\* lines 193-194: `for symbol in symbols: for exchange_id, exchange in ...`
AllPairs ==
    [i \in 1..(Len(SymbolList) * Len(ExchangeList)) |->
        <<SymbolList[((i - 1) \div Len(ExchangeList)) + 1],
          ExchangeList[((i - 1) % Len(ExchangeList)) + 1]>>]

\* lines 193-197: task_info, the listed pairs in the order of the loops.
TaskInfo == SelectSeq(AllPairs, LAMBDA p : p[1] \in exchange_symbols[p[2]])

TickerCoros(owner, info) ==
    [i \in DOMAIN info |-> Coro("ticker", owner, info[i][2], info[i][1])]

OwnedBy(owner) == {r \in Live : r.owner = owner}

TaskOf(owner, pair) ==
    CHOOSE r \in OwnedBy(owner) : r.sym = pair[1] /\ r.ex = pair[2]

\* gather(*tasks, return_exceptions=True) is done: every task has returned
\* or was cancelled.
GatherDone(owner, info) ==
    \A i \in DOMAIN info :
        \E r \in OwnedBy(owner) :
            r.sym = info[i][1] /\ r.ex = info[i][2] /\ r.pc \in {"done", "cancelled"}

\* line 200: results, in the order of task_info.
ResultsOf(owner, info) == [i \in DOMAIN info |-> TaskOf(owner, info[i]).res]

DropTasksOf(owner) == [r \in Live \ OwnedBy(owner) |-> tasks[r]]

\* lines 203-206: price_matrix[symbol][exchange_id] = result for the results
\* that are a non-empty dict.
MergeResults(info, results) ==
    LET ok == {i \in DOMAIN results : results[i] # <<>>}
    IN  [s \in {info[i][1] : i \in ok} |->
            [e \in {info[i][2] : i \in {j \in ok : info[j][1] = s}} |->
                results[CHOOSE i \in ok : info[i] = <<s, e>>][1]]]

\* lines 151-152: max by bid and min by ask, the first one among equals.
FirstOf(S) ==
    ExchangeList[CHOOSE i \in DOMAIN ExchangeList :
        /\ ExchangeList[i] \in S
        /\ \A j \in DOMAIN ExchangeList : ExchangeList[j] \in S => i <= j]

BestBid(prices) ==
    FirstOf({e \in DOMAIN prices :
                \A f \in DOMAIN prices : prices[e].bid >= prices[f].bid})
BestAsk(prices) ==
    FirstOf({e \in DOMAIN prices :
                \A f \in DOMAIN prices : prices[e].ask <= prices[f].ask})

\* lines 154-157: bid > ask and profit_pct >= min_profit_pct
Profitable(prices) ==
    LET bid == prices[BestBid(prices)].bid
        ask == prices[BestAsk(prices)].ask
    IN  /\ bid # 0 /\ ask # 0 /\ bid > ask
        /\ (bid - ask) * 1000 >= MinProfitPerMille * ask

ArbitrageOutcomeOfAnyRow(matrix) ==
    [pc |-> "returned",
     signals |-> {<<"arbitrage", s, BestAsk(matrix[s])>> :
                     s \in {x \in DOMAIN matrix : Profitable(matrix[x])}}]

\* lines 146-183: the strategy's result for the matrix.  Comparing a bid that
\* is not a number with a number raises TypeError (line 151).
ArbitrageOutcome(matrix) ==
    LET multi == {s \in DOMAIN matrix : Cardinality(DOMAIN matrix[s]) >= 2}
    IN  IF \E s \in multi : \E e \in DOMAIN matrix[s] : matrix[s][e].bid = NotANumber
        THEN [pc |-> "raised", signals |-> {}]
        ELSE [pc |-> "returned",
              signals |-> {<<"arbitrage", s, BestAsk(matrix[s])>> :
                              s \in {x \in multi : Profitable(matrix[x])}}]

\* scan(), line 116: the coroutine of the strategy is created and wrapped.
\* An exchange that has failed MaxErrors times is not scanned again.
CallArbitrage ==
    /\ strategies["arbitrage"].pc \in {"idle", "returned", "raised"}
    /\ \A e \in Exchanges : exchange_stats[e].errors < MaxErrors
    /\ ready' = Append(ready, Coro("strategy", "arbitrage", "", ""))
    /\ strategies' = [strategies EXCEPT !["arbitrage"] =
                         [pc |-> "created", signals |-> {}]]
    /\ UNCHANGED <<fetchVars, dataVars, now, exchange_symbols, builder, scout,
                   managerVars, signalVars>>

\* _scan_arbitrage_opportunities up to `await asyncio.gather` of line 200
\* (lines 138-143, 185-200).  gather of no task is done at once, and the
\* strategy then returns in the same step.
StartArbitrage ==
    /\ ready # <<>> /\ Head(ready) = Coro("strategy", "arbitrage", "", "")
    /\ LET info == TaskInfo
       IN  IF info = <<>>
           THEN /\ builder' = [pc |-> "returned", task_info |-> info,
                               results |-> <<>>, price_matrix |-> <<>>]
                /\ strategies' = [strategies EXCEPT !["arbitrage"] =
                                     ArbitrageOutcome(<<>>)]
                /\ ready' = Tail(ready)
           ELSE /\ builder' = [pc |-> "gathering", task_info |-> info,
                               results |-> <<>>, price_matrix |-> <<>>]
                /\ strategies' = [strategies EXCEPT !["arbitrage"].pc = "waiting"]
                /\ ready' = Tail(ready) \o TickerCoros("arbitrage", info)
    /\ UNCHANGED <<fetchVars, dataVars, now, exchange_symbols, scout, managerVars,
                   signalVars>>

\* The loop runs the first step of the next ticker coroutine.
RunTickerCoro ==
    /\ ready # <<>> /\ Head(ready).kind = "ticker"
    /\ CallFetchTicker(Head(ready).owner, Head(ready).ex, Head(ready).sym)
    /\ ready' = Tail(ready)
    /\ UNCHANGED <<exchange_symbols, builder, strategies, scout, managerVars,
                   signalVars>>

\* gather is done: _build_price_matrix merges and returns (lines 200-208),
\* _scan_arbitrage_opportunities evaluates the matrix and ends (146-183).
ArbitrageResumes ==
    /\ builder.pc = "gathering"
    /\ GatherDone("arbitrage", builder.task_info)
    /\ LET results == ResultsOf("arbitrage", builder.task_info)
           matrix == MergeResults(builder.task_info, results)
       IN  /\ builder' = [builder EXCEPT !.pc = "returned", !.results = results,
                                         !.price_matrix = matrix]
           /\ strategies' = [strategies EXCEPT !["arbitrage"] =
                                ArbitrageOutcome(matrix)]
    /\ tasks' = DropTasksOf("arbitrage")
    /\ UNCHANGED <<semaphore, rate_limiters, cancelled_at, responsive, dataVars,
                   now, ready, exchange_symbols, scout, managerVars,
                   signalVars>>

\* Any listing, and any set of exchanges that answer at all.
InitMatrix ==
    /\ InitFetch
    /\ responsive \in SUBSET Exchanges
    /\ InitData
    /\ now = 0
    /\ ready = <<>>
    /\ exchange_symbols \in [Exchanges -> SUBSET Symbols]
    /\ builder = IdleBuilder
    /\ strategies = [n \in Strategies |-> [pc |-> "idle", signals |-> {}]]
    /\ scout = [pc |-> "idle", scan_count |-> 0, opportunities |-> {},
               error_count |-> 0]
    /\ InitManager
    /\ InitSignals

TickerEnds ==
    \E r \in Live : FetchTickerReturns(r, TickerOf(r.ex)) \/ FetchTickerRaises(r)

NextMatrix ==
    \/ CallArbitrage
    \/ StartArbitrage
    \/ RunTickerCoro
    \/ \E r \in Live : AcquireGlobal(r)
    \/ \E r \in Live : AcquireExchange(r)
    \/ \E r \in Live : FetchTickerReturns(r, TickerOf(r.ex))
    \/ \E r \in Live : FetchTickerRaises(r)
    \/ ArbitrageResumes

SpecMatrix == InitMatrix /\ [][NextMatrix]_vars

\* The loop runs every coroutine that can run, and every request ends (by an
\* answer or by the timeout).
SpecMatrixFair ==
    /\ SpecMatrix
    /\ WF_vars(StartArbitrage)
    /\ WF_vars(RunTickerCoro)
    /\ WF_vars(\E r \in Live : AcquireGlobal(r))
    /\ WF_vars(\E r \in Live : AcquireExchange(r))
    /\ WF_vars(TickerEnds)
    /\ WF_vars(ArbitrageResumes)

MatrixPairs(matrix) ==
    UNION {{<<s, e>> : e \in DOMAIN matrix[s]} : s \in DOMAIN matrix}

ListedPairs == {p \in Symbols \X Exchanges : p[1] \in exchange_symbols[p[2]]}

FailedFetches(e) ==
    CountIn({r \in Live : r.owner = "arbitrage" /\ r.via = "error" /\ r.ex = e})

\* C6: when the builder returns, its matrix holds exactly the listed pairs
\* whose lookup was a cache hit or a successful fetch, with the snapshot the
\* lookup returned; a fetch that fails adds one to the error counter of its
\* exchange and to no other, and leaves the builder and every sibling task
\* as they are.
C6_Step ==
    /\ builder.pc = "gathering" /\ builder'.pc = "returned" =>
          LET ok == {x \in OwnedBy("arbitrage") : x.via \in {"cache", "fetch"}}
              m == builder'.price_matrix
          IN  /\ MatrixPairs(m) = {<<r.sym, r.ex>> : r \in ok}
              /\ \A r \in ok : <<r.sym, r.ex>> \in ListedPairs
                                 /\ m[r.sym][r.ex] = r.res[1]
              /\ \A p \in ListedPairs : \E r \in OwnedBy("arbitrage") :
                     r.sym = p[1] /\ r.ex = p[2] /\ r.pc = "done"
    /\ \A e \in Exchanges :
          /\ FailedFetches(e)' > FailedFetches(e) =>
                /\ FailedFetches(e)' = FailedFetches(e) + 1
                /\ exchange_stats' = [exchange_stats EXCEPT ![e].errors = @ + 1]
                /\ builder' = builder /\ ready' = ready
                /\ BagCardinality(tasks') = BagCardinality(tasks)
                /\ \A r \in Live : r.pc = "done" \/ r.ex # e => r \in BagToSet(tasks')
          /\ exchange_stats'[e] # exchange_stats[e] =>
                FailedFetches(e)' = FailedFetches(e) + 1

C6_FailedFetchExcluded == [][C6_Step]_vars

\* C6 witness: the builder has returned a matrix although a fetch failed: the
\* failed pair is absent, a sibling's snapshot is present, the failure counted.
C6_Witness ==
    /\ builder.pc = "returned"
    /\ \E i, j \in DOMAIN builder.results :
          /\ builder.results[i] = <<>>
          /\ builder.task_info[i] \notin MatrixPairs(builder.price_matrix)
          /\ exchange_stats[builder.task_info[i][2]].errors > 0
          /\ builder.results[j] # <<>>
          /\ builder.task_info[j] \in MatrixPairs(builder.price_matrix)

\* C7: a builder that waits for its fetch tasks returns, whichever exchanges
\* never answer.
C7_BuilderReturns == (builder.pc = "gathering") ~> (builder.pc = "returned")

\* C7 witness: the builder has returned although an exchange it asked never
\* answers; the requests to it ended with the timeout.
C7_Witness ==
    /\ builder.pc = "returned"
    /\ \E i \in DOMAIN builder.task_info :
          /\ builder.task_info[i][2] \notin responsive
          /\ builder.results[i] = <<>>

---------------------------------------------------------------------------
(* One call of scan(): the five strategies run as tasks of one gather.     *)

\* line 346: the number of samples a key needs to be evaluated (5), scaled
\* with HistoryCap.
MoveWindow == 2

\* line 354: abs(price_change) >= 2 (percent)
MovePct == 2

\* line 480: a symbol the exchange has added since the last reload.
NewSymbol == "NEW/USDT"

TickersOf(e) == {TickerOf(e)} \cup (IF e = "okx" THEN {BadTicker} ELSE {})

\* lines 267-272: `for exchange_id, exchange in ...: for symbol in ...`
ExchangePairs ==
    [i \in 1..(Len(SymbolList) * Len(ExchangeList)) |->
        <<SymbolList[((i - 1) % Len(SymbolList)) + 1],
          ExchangeList[((i - 1) \div Len(SymbolList)) + 1]>>]

VolumeInfo == SelectSeq(ExchangePairs, LAMBDA p : p[1] \in exchange_symbols[p[2]])

IndexOf(e) == CHOOSE i \in DOMAIN ExchangeList : ExchangeList[i] = e

\* lines 344-381 for the history h of one key: "none" (fewer samples than the
\* window), "raise" (prices[0] is 0: ZeroDivisionError at line 351), "signal"
\* or "quiet".
MovementOf(h) ==
    IF Len(h) < MoveWindow THEN "none"
    ELSE LET first == h[Len(h) - MoveWindow + 1].price
             last == h[Len(h)].price
             diff == IF last >= first THEN last - first ELSE first - last
         IN  IF first = 0 THEN "raise"
             ELSE IF diff * 100 >= MovePct * first THEN "signal"
             ELSE "quiet"

\* _scan_price_movements, lines 340-381.
PriceMovementsOutcome ==
    IF \E k \in DOMAIN price_history : MovementOf(price_history[k]) = "raise"
    THEN [pc |-> "raised", signals |-> {}]
    ELSE [pc |-> "returned",
          signals |-> {<<"price_movement", k[1], k[2]>> :
                          k \in {x \in DOMAIN price_history :
                                    MovementOf(price_history[x]) = "signal"}}]

\* scan(), lines 107-123: the five coroutines are created in the order of
\* the list and gathered.
ScanStart ==
    /\ scout.pc = "idle"
    /\ scout' = [scout EXCEPT !.pc = "gathering", !.scan_count = @ + 1,
                              !.opportunities = {}]
    /\ strategies' = [n \in Strategies |-> [pc |-> "created", signals |-> {}]]
    /\ ready' = ready \o [i \in DOMAIN StrategyList |->
                             Coro("strategy", StrategyList[i], "", "")]
    /\ UNCHANGED <<fetchVars, dataVars, now, exchange_symbols, builder, managerVars,
                   signalVars>>

\* _scan_volume_spikes up to its gather (lines 261-274).
StartVolume ==
    /\ ready # <<>> /\ Head(ready) = Coro("strategy", "volume", "", "")
    /\ IF VolumeInfo = <<>>
       THEN strategies' = [strategies EXCEPT !["volume"].pc = "returned"]
       ELSE strategies' = [strategies EXCEPT !["volume"].pc = "waiting"]
    /\ ready' = Tail(ready) \o TickerCoros("volume", VolumeInfo)
    /\ UNCHANGED <<fetchVars, dataVars, now, exchange_symbols, builder, scout,
                   managerVars, signalVars>>

\* gather is done (lines 274-280).  Whether a pair with a ticker spikes hangs
\* on the volume history of earlier cycles (lines 291-309): any of them may.
VolumeResumes ==
    /\ strategies["volume"].pc = "waiting"
    /\ GatherDone("volume", VolumeInfo)
    /\ \E spikes \in SUBSET {<<"volume_spike", r.sym, r.ex>> :
                               r \in {x \in OwnedBy("volume") :
                                         x.res # <<>> /\ x.res[1].volume # 0}} :
          strategies' = [strategies EXCEPT !["volume"] =
                            [pc |-> "returned", signals |-> spikes]]
    /\ tasks' = DropTasksOf("volume")
    /\ UNCHANGED <<semaphore, rate_limiters, cancelled_at, responsive, dataVars,
                   now, ready, exchange_symbols, builder, scout, managerVars,
                   signalVars>>

\* _scan_price_movements has no await: it runs from its first line to its
\* return in its first step.
StartPriceMovements ==
    /\ ready # <<>> /\ Head(ready) = Coro("strategy", "price_movements", "", "")
    /\ strategies' = [strategies EXCEPT !["price_movements"] = PriceMovementsOutcome]
    /\ ready' = Tail(ready)
    /\ UNCHANGED <<fetchVars, dataVars, now, exchange_symbols, builder, scout,
                   managerVars, signalVars>>

\* _scan_orderbook_imbalances up to its gather (lines 383-396).
StartOrderbook ==
    /\ ready # <<>> /\ Head(ready) = Coro("strategy", "orderbook", "", "")
    /\ IF TaskInfo = <<>>
       THEN strategies' = [strategies EXCEPT !["orderbook"].pc = "returned"]
       ELSE strategies' = [strategies EXCEPT !["orderbook"].pc = "waiting"]
    /\ ready' = Tail(ready) \o
                  [i \in DOMAIN TaskInfo |->
                      Coro("orderbook", "orderbook", TaskInfo[i][2], TaskInfo[i][1])]
    /\ UNCHANGED <<fetchVars, dataVars, now, exchange_symbols, builder, scout,
                   managerVars, signalVars>>

\* The loop runs the first step of the next order-book coroutine.
RunOrderbookCoro ==
    /\ ready # <<>> /\ Head(ready).kind = "orderbook"
    /\ CallAnalyzeOrderbook(Head(ready).owner, Head(ready).ex, Head(ready).sym)
    /\ ready' = Tail(ready)
    /\ UNCHANGED <<exchange_symbols, builder, strategies, scout, managerVars,
                   signalVars>>

\* gather is done (lines 396-402).
OrderbookResumes ==
    /\ strategies["orderbook"].pc = "waiting"
    /\ GatherDone("orderbook", TaskInfo)
    /\ strategies' = [strategies EXCEPT !["orderbook"] =
          [pc |-> "returned",
           signals |-> {r.res[1] : r \in {x \in OwnedBy("orderbook") : x.res # <<>>}}]]
    /\ tasks' = DropTasksOf("orderbook")
    /\ UNCHANGED <<semaphore, rate_limiters, cancelled_at, responsive, dataVars,
                   now, ready, exchange_symbols, builder, scout, managerVars,
                   signalVars>>

\* _scan_new_listings up to its first await (lines 460-470).
StartNewListings ==
    /\ ready # <<>> /\ Head(ready) = Coro("strategy", "new_listings", "", "")
    /\ CallLoadMarkets("new_listings", ExchangeList[1])
    /\ strategies' = [strategies EXCEPT !["new_listings"].pc = "waiting"]
    /\ ready' = Tail(ready)
    /\ UNCHANGED <<exchange_symbols, builder, scout, managerVars, signalVars>>

\* load_markets of one exchange answers (with a new symbol or without) or
\* raises: lines 470-499, then the next exchange's reload or the return.
NewListingsAdvances(r, added) ==
    /\ r \in Live /\ r.kind = "markets" /\ r.owner = "new_listings"
    /\ r.pc = "inflight"
    /\ r.ex \in responsive \/ RequestTimesOut(r)
    /\ LET found == IF added THEN {<<"new_listing", NewSymbol, r.ex>>} ELSE {}
           all == strategies["new_listings"].signals \cup found
       IN  IF IndexOf(r.ex) < Len(ExchangeList)
           THEN /\ tasks' = Replace(r, [r EXCEPT !.ex = ExchangeList[IndexOf(r.ex) + 1],
                                                 !.t0 = now])
                /\ strategies' = [strategies EXCEPT !["new_listings"].signals = all]
           ELSE /\ tasks' = Remove(r)
                /\ strategies' = [strategies EXCEPT !["new_listings"] =
                                     [pc |-> "returned", signals |-> all]]
    /\ UNCHANGED <<semaphore, rate_limiters, cancelled_at, responsive, dataVars,
                   now, ready, exchange_symbols, builder, scout, managerVars,
                   signalVars>>

Ended == {n \in Strategies : strategies[n].pc \in {"returned", "raised"}}

IgnoreAllIfOneRaised(S) ==
    IF \E n \in S : strategies[n].pc = "raised" THEN {}
    ELSE UNION {strategies[n].signals : n \in S}

\* lines 125-127: the results that are lists are joined.
Collected(S) ==
    UNION {strategies[n].signals : n \in {x \in S : strategies[x].pc = "returned"}}

\* gather of line 123 is done: lines 125-136.
ScanResumes ==
    /\ scout.pc = "gathering"
    /\ Ended = Strategies
    /\ scout' = [scout EXCEPT
          !.pc = "returned",
          !.opportunities = Collected(Strategies),
          !.error_count = @ + Cardinality({n \in Strategies :
                                              strategies[n].pc = "raised"})]
    /\ UNCHANGED <<fetchVars, dataVars, now, ready, exchange_symbols, builder,
                   strategies, managerVars, signalVars>>

\* The samples of earlier cycles of one key: none, or a full window that
\* starts at price `first`.
PastHistory(first) ==
    [i \in 1..MoveWindow |->
        [price |-> IF i = 1 THEN first ELSE GoodTicker.last, timestamp |-> 0]]

PastHistories == {<<>>} \cup {PastHistory(first) : first \in {0, 90, 100}}

\* A scout whose earlier cycles left samples, and the snapshot written with
\* the last one, for one key; the snapshot has expired.  Both exchanges list
\* the first symbol.
InitScan ==
    /\ InitFetch
    /\ responsive = Exchanges
    /\ \E h \in PastHistories :
          /\ price_history = [k \in Symbols \X Exchanges |->
                IF k = <<SymbolList[1], ExchangeList[1]>> THEN h ELSE <<>>]
          /\ ticker_cache = IF h = <<>> THEN <<>>
                ELSE [k \in {<<ExchangeList[1], SymbolList[1]>>} |->
                         [data |-> ResultOf(GoodTicker), timestamp |-> 0]]
    /\ exchange_stats = [e \in Exchanges |-> [errors |-> 0]]
    /\ now = cache_ttl
    /\ ready = <<>>
    /\ exchange_symbols = [e \in Exchanges |-> {SymbolList[1]}]
    /\ builder = IdleBuilder
    /\ strategies = [n \in Strategies |-> [pc |-> "idle", signals |-> {}]]
    /\ scout = [pc |-> "idle", scan_count |-> 0, opportunities |-> {},
                error_count |-> 0]
    /\ InitManager
    /\ InitSignals

NextScan ==
    \/ ScanStart
    \/ StartArbitrage
    \/ StartVolume
    \/ StartPriceMovements
    \/ StartOrderbook
    \/ StartNewListings
    \/ RunTickerCoro
    \/ RunOrderbookCoro
    \/ \E r \in Live : AcquireGlobal(r)
    \/ \E r \in Live : AcquireExchange(r)
    \/ \E r \in Live : AcquireGlobalOrderbook(r)
    \/ \E r \in Live : \E t \in TickersOf(r.ex) : FetchTickerReturns(r, t)
    \/ \E r \in Live : FetchTickerRaises(r)
    \/ \E r \in Live, imbalanced \in BOOLEAN : OrderbookEnds(r, imbalanced)
    \/ \E r \in Live, added \in BOOLEAN : NewListingsAdvances(r, added)
    \/ ArbitrageResumes
    \/ VolumeResumes
    \/ OrderbookResumes
    \/ ScanResumes

SpecScan == InitScan /\ [][NextScan]_vars

\* The fetch coroutines of the cycle that are yet to be created, to run or
\* to end.
FetchesPending ==
    \/ \E n \in {"arbitrage", "volume", "orderbook", "new_listings"} :
          strategies[n].pc = "created"
    \/ \E i \in DOMAIN ready : ready[i].kind \in {"ticker", "orderbook"}
    \/ \E r \in Live : r.pc # "done"

\* C8: in a scan cycle the price-movement strategy has run only if every
\* fetch coroutine of the cycle has been issued and has ended, so that the
\* history it reads holds the samples of the cycle.
C8_FetchPhasePrecedesDetection ==
    scout.pc = "gathering" /\ strategies["price_movements"].pc \in {"returned", "raised"}
        => ~FetchesPending

\* C9: scan() ends by returning the signals of exactly the strategies that
\* returned a list and adds one to error_count per strategy that raised; a
\* strategy that raises changes neither the other strategies nor their
\* tasks nor the scan.
C9_Step ==
    /\ scout'.pc # scout.pc /\ scout.pc = "gathering" =>
          /\ scout'.pc = "returned"
          /\ scout'.opportunities =
                UNION {strategies[n].signals :
                          n \in {x \in Strategies : strategies[x].pc # "raised"}}
          /\ scout'.error_count = scout.error_count +
                Cardinality({n \in Strategies : strategies[n].pc = "raised"})
    /\ \A n \in Strategies :
          strategies'[n].pc = "raised" /\ strategies[n].pc # "raised" =>
              /\ scout' = scout
              /\ \A o \in Strategies \ {n} :
                    /\ strategies'[o] = strategies[o]
                    /\ \A r \in OwnedBy(o) : r \in BagToSet(tasks')

---------------------------------------------------------------------------
(* ScoutManager and its workers.  The manager runs any BaseScout: here a   *)
(* tick's scan() is a call that takes time and ends by returning a list of *)
(* signals or by raising; publish_opportunities() hands every signal of    *)
(* the list to the publisher.  The timing statistics are not kept.         *)

MaxClock == 4

\* line 108: scan_interval, 60 by default
ScanInterval == 60

\* line 114: asyncio.sleep(30)
CooldownSeconds == 30

\* The worker tasks that line 77 creates for a scout of the configuration.
WorkersOf(n) == IF n = "market" THEN {1} ELSE {2}

ScoutOf(w) == CHOOSE n \in ScoutNames : w \in WorkersOf(n)

\* line 91: worker_name = f"{scout_name}[{worker_id}]"
worker_name(w) == <<"market[0]", "defi[0]">>[w]

\* The lists of signals a scan() returns.
Batches == {<<>>, <<"a", "b">>}

\* A worker outside line 106.
NoBatch == [opportunities |-> <<>>, tasks |-> <<>>]

\* The clock moves on.
Elapse ==
    /\ now < MaxClock * CooldownSeconds
    /\ now' = now + CooldownSeconds
    /\ UNCHANGED <<fetchVars, dataVars, scoutVars, managerVars, signalVars>>

\* The place of a scout in the configuration.
ScoutIndex(n) == CHOOSE i \in DOMAIN ScoutList : ScoutList[i] = n

\* The scout after n in the configuration, or the end of the loop of line 67.
NextStart(n) ==
    IF ScoutIndex(n) < Len(ScoutList) THEN ScoutList[ScoutIndex(n) + 1]
    ELSE "returned"

\* start_scouts, lines 62-72, up to its first suspension: the flag is set,
\* the first scout is constructed and its initialize() is awaited.
StartScouts ==
    /\ control.start = "idle" /\ ~manager.running
    /\ manager' = [manager EXCEPT !.running = TRUE]
    /\ control' = [control EXCEPT !.start = ScoutList[1]]
    /\ instances' = [instances EXCEPT ![ScoutList[1]].state = "initializing"]
    /\ UNCHANGED <<fetchVars, dataVars, now, scoutVars, workers, publishing,
                   signalVars>>

\* initialize() returns (base_scout.py lines 53-60, market_scout.py lines
\* 61-71): _init_exchanges gathers the exchanges' initialisations with
\* return_exceptions=True and only logs the failures, so initialize()
\* returns with whatever exchanges connected, `connected`, in self.exchanges
\* and marks the scout running.  start_scouts goes on (lines 73-83): the
\* instance is recorded, its workers are created, and the loop turns to the
\* next scout, or start_scouts creates the monitor task (line 86) and
\* returns.
InitializeReturns(connected) ==
    /\ control.start \in ScoutNames
    /\ LET n == control.start
       IN  /\ n # "market" => connected = {}
           /\ manager' = [manager EXCEPT
                             !.scouts_started = @ + Cardinality(WorkersOf(n))]
           /\ workers' = [w \in Workers |->
                             IF w \in WorkersOf(n)
                             THEN [pc |-> "created", wake |-> now]
                             ELSE workers[w]]
           /\ control' = [control EXCEPT
                  !.start = NextStart(n),
                  !.monitor = IF NextStart(n) = "returned"
                              THEN [pc |-> "created", wake |-> 0] ELSE @]
           /\ instances' = [m \in ScoutNames |->
                  IF m = n THEN [state |-> "running", exchanges |-> connected]
                  ELSE IF m = NextStart(n)
                       THEN [instances[m] EXCEPT !.state = "initializing"]
                       ELSE instances[m]]
    /\ UNCHANGED <<fetchVars, dataVars, now, scoutVars, publishing, signalVars>>

\* initialize() raises (the session cannot be made, _initialize raises
\* before or after its gather): line 72 is inside no try, so start_scouts
\* ends there with the exception.
InitializeRaises ==
    /\ control.start \in ScoutNames
    /\ instances' = [instances EXCEPT ![control.start].state = "failed"]
    /\ control' = [control EXCEPT !.start = "raised"]
    /\ UNCHANGED <<fetchVars, dataVars, now, scoutVars, manager, workers, publishing,
                   signalVars>>

WorkerLoopsWhateverTheFlag(w) ==
    /\ workers[w].pc \in {"created", "sleeping", "cooldown"}
    /\ now >= workers[w].wake
    /\ workers' = [workers EXCEPT ![w].pc = "scanning"]
    /\ UNCHANGED <<fetchVars, dataVars, now, scoutVars, manager, instances,
                   control, publishing, signalVars>>

\* line 94, `while self.running`, when the worker first runs and when a
\* sleep of line 109 or 114 is over; then line 99 awaits scan().
WorkerLoops(w) ==
    /\ workers[w].pc \in {"created", "sleeping", "cooldown"}
    /\ now >= workers[w].wake
    /\ workers' = [workers EXCEPT ![w].pc =
                      IF manager.running THEN "scanning" ELSE "ended"]
    /\ UNCHANGED <<fetchVars, dataVars, now, scoutVars, manager, instances,
                   control, publishing, signalVars>>

\* base_scout.py line 77: one publish coroutine for each element of the
\* list, in its order.
PublishCoros(opportunities) ==
    [i \in DOMAIN opportunities |-> [signal |-> opportunities[i], pc |-> "pending"]]

\* lines 99-109: scan() returns the list `found`, every fetch coroutine of
\* the scan having ended.  With opportunities line 106 calls
\* publish_opportunities, which gathers their publish coroutines; with none
\* line 109 sleeps.
ScanReturns(w, found) ==
    /\ workers[w].pc = "scanning"
    /\ \A r \in OwnedBy(worker_name(w)) : r.pc = "done"
    /\ tasks' = DropTasksOf(worker_name(w))
    /\ IF found # <<>>
       THEN /\ workers' = [workers EXCEPT ![w] = [pc |-> "publishing", wake |-> now]]
            /\ publishing' = [publishing EXCEPT ![w] =
                   [opportunities |-> found, tasks |-> PublishCoros(found)]]
       ELSE /\ workers' = [workers EXCEPT ![w] =
                              [pc |-> "sleeping", wake |-> now + ScanInterval]]
            /\ UNCHANGED publishing
    /\ UNCHANGED <<semaphore, rate_limiters, cancelled_at, responsive, dataVars,
                   now, scoutVars, manager, instances, control, signalVars>>

PublishEndsStopsBatch(w, i, sent) ==
    /\ workers[w].pc = "publishing"
    /\ i \in DOMAIN publishing[w].tasks /\ publishing[w].tasks[i].pc = "pending"
    /\ IF sent
       THEN /\ publishing' = [publishing EXCEPT ![w].tasks[i].pc = "sent"]
            /\ UNCHANGED <<workers, manager>>
       ELSE /\ publishing' = [publishing EXCEPT ![w].tasks[i].pc = "failed"]
            /\ manager' = [manager EXCEPT !.errors_count = @ + 1]
            /\ workers' = [workers EXCEPT ![w] =
                              [pc |-> "cooldown", wake |-> now + CooldownSeconds]]
    /\ UNCHANGED <<fetchVars, dataVars, now, scoutVars, instances, control,
                   signalVars>>

\* A publish coroutine of the gather of base_scout.py line 78 ends
\* (messaging.py lines 31-63): the message was sent, or it was not: the
\* exception is logged by line 63, or, raised by the acquisition of the
\* channel, kept by the gather as that coroutine's result.
PublishEnds(w, i, sent) ==
    /\ workers[w].pc = "publishing"
    /\ i \in DOMAIN publishing[w].tasks /\ publishing[w].tasks[i].pc = "pending"
    /\ publishing' = [publishing EXCEPT ![w].tasks[i].pc =
                         IF sent THEN "sent" ELSE "failed"]
    /\ UNCHANGED <<fetchVars, dataVars, now, scoutVars, manager, workers,
                   instances, control, signalVars>>

\* lines 106-109: the gather of base_scout.py line 78 is done and
\* publish_opportunities returns; the worker sleeps.
PublishReturns(w) ==
    /\ workers[w].pc = "publishing"
    /\ \A i \in DOMAIN publishing[w].tasks : publishing[w].tasks[i].pc # "pending"
    /\ workers' = [workers EXCEPT ![w] =
                      [pc |-> "sleeping", wake |-> now + ScanInterval]]
    /\ publishing' = [publishing EXCEPT ![w] = NoBatch]
    /\ UNCHANGED <<fetchVars, dataVars, now, scoutVars, manager, instances, control,
                   signalVars>>

TickRaisesAndEnds(w) ==
    /\ workers[w].pc = "scanning"
    /\ OwnedBy(worker_name(w)) = {}
    /\ manager' = [manager EXCEPT !.errors_count = @ + 1]
    /\ workers' = [workers EXCEPT ![w] = [pc |-> "ended", wake |-> now]]
    /\ UNCHANGED <<fetchVars, dataVars, now, scoutVars, instances, control,
                   publishing, signalVars>>

\* lines 111-114: scan() raises an Exception, outside its gather, or line 77
\* of base_scout.py does while it builds the publish coroutines; the gather
\* of line 78 raises none.
TickRaises(w) ==
    /\ workers[w].pc = "scanning"
    /\ OwnedBy(worker_name(w)) = {}
    /\ manager' = [manager EXCEPT !.errors_count = @ + 1]
    /\ workers' = [workers EXCEPT ![w] =
                      [pc |-> "cooldown", wake |-> now + CooldownSeconds]]
    /\ UNCHANGED <<fetchVars, dataVars, now, scoutVars, instances, control,
                   publishing, signalVars>>

\* The first recorded instance from position i of the configuration on, or
\* the end of the loop of line 133: self.active_scout_instances is in the
\* order of its insertions (line 73).
NextCleanup(i) ==
    LET later == {j \in DOMAIN ScoutList :
                     j >= i /\ instances[ScoutList[j]].state = "running"}
    IN  IF later = {} THEN "returned"
        ELSE ScoutList[CHOOSE j \in later : \A k \in later : j <= k]

\* stop, lines 127-134, up to its first suspension: the flag is cleared and
\* cleanup() of the first recorded instance is awaited.  No worker task is
\* cancelled or awaited: start_scouts kept them in a local list (line 65).
\* stop() is called when start_scouts is over.
Stop ==
    /\ manager.running
    /\ control.start \in {"returned", "raised"} /\ control.stop = "idle"
    /\ manager' = [manager EXCEPT !.running = FALSE]
    /\ control' = [control EXCEPT !.stop = NextCleanup(1)]
    /\ UNCHANGED <<fetchVars, dataVars, now, scoutVars, workers, instances,
                   publishing, signalVars>>

\* cleanup() of an instance returns (base_scout.py lines 101-108): its
\* session and its publisher are closed; stop() turns to the next instance
\* or returns.
CleanupReturns ==
    /\ control.stop \in ScoutNames
    /\ instances' = [instances EXCEPT ![control.stop].state = "closed"]
    /\ control' = [control EXCEPT !.stop = NextCleanup(ScoutIndex(control.stop) + 1)]
    /\ UNCHANGED <<fetchVars, dataVars, now, scoutVars, manager, workers,
                   publishing, signalVars>>

NextWorker ==
    \/ StartScouts
    \/ \E connected \in SUBSET Exchanges : InitializeReturns(connected)
    \/ InitializeRaises
    \/ \E w \in Workers : WorkerLoops(w)
    \/ \E w \in Workers, found \in Batches : ScanReturns(w, found)
    \/ \E w \in Workers, sent \in BOOLEAN :
          \E i \in DOMAIN publishing[w].tasks : PublishEnds(w, i, sent)
    \/ \E w \in Workers : PublishReturns(w)
    \/ \E w \in Workers : TickRaises(w)
    \/ Stop
    \/ CleanupReturns
    \/ Elapse

SpecWorker == Init /\ [][NextWorker]_vars

\* C10: a tick that raises leaves its worker in the 30 s cool-down and adds
\* exactly one to the manager's error count; the cool-down ends no sooner
\* than 30 s later and then, if the manager is running, the worker begins
\* another tick; a worker ends only by finding the manager stopped when it
\* tests the flag, never out of a tick.
C10_Step ==
    /\ manager'.errors_count = manager.errors_count +
          Cardinality({w \in Workers : /\ workers[w].pc \in {"scanning", "publishing"}
                                       /\ workers'[w].pc = "cooldown"})
    /\ \A w \in Workers :
          /\ workers[w].pc \in {"scanning", "publishing"} /\ workers'[w] # workers[w] =>
                \/ workers'[w].pc \in {"publishing", "sleeping"}
                \/ /\ workers'[w].pc = "cooldown"
                   /\ workers'[w].wake = now + CooldownSeconds
          /\ workers[w].pc = "cooldown" /\ workers'[w] # workers[w] =>
                /\ now >= workers[w].wake
                /\ workers'[w].pc = IF manager.running THEN "scanning" ELSE "ended"
          /\ workers'[w].pc = "ended" /\ workers[w].pc # "ended" =>
                ~manager.running /\ workers[w].pc \in {"created", "sleeping", "cooldown"}

C10_WorkerSurvivesTickError == [][C10_Step]_vars

\* C10 witness: ticks have raised more often than there are workers, so a
\* worker has raised, cooled down, begun another tick and raised again; and
\* every worker is in a tick.
C10_Witness ==
    /\ manager.running
    /\ manager.errors_count > Cardinality(Workers)
    /\ \A w \in Workers : workers[w].pc = "scanning"

\* C11: cleanup of a scout (closing its session and its publisher) never
\* happens while one of its workers is in the scanning or publishing part
\* of a tick: no scout is closed with a worker of it inside a tick.
C11_CleanupAfterTick ==
    \A n \in ScoutNames :
        instances[n].state = "closed" =>
            \A w \in WorkersOf(n) : workers[w].pc \notin {"scanning", "publishing"}

\* C13: if the initialization of one scout fails, only the workers of that
\* scout are not started: once start_scouts is over, the workers of every
\* scout whose own initialization did not fail have been started, whether
\* the scout is listed before or after the failing one.
C13_OthersStillStart ==
    control.start \in {"returned", "raised"} =>
        \A n \in ScoutNames :
            instances[n].state # "failed" =>
                \A w \in WorkersOf(n) : workers[w].pc # "none"

\* C14: if every configured exchange fails to initialize, the market scout
\* is not marked running and no worker of it is created or scans.
C14_NoExchangeIsFatal ==
    /\ instances["market"].state \in {"running", "closed"} =>
           instances["market"].exchanges # {}
    /\ instances["market"].exchanges = {} =>
           \A w \in WorkersOf("market") : workers[w].pc = "none"

\* C16: in every tick whose scan completes with signals, each signal of the
\* list is handed to publish exactly once, when scan() returns; the worker
\* leaves the publishing part only for its interval sleep and only when
\* every publish of the batch has ended, sent or failed; while it is there
\* the batch does not change and a step ends one publish, leaving the
\* others as they are.
C16_Step ==
    \A w \in Workers :
        LET before == publishing[w]
            after == publishing'[w]
        IN  /\ workers[w].pc = "scanning" /\ workers'[w].pc = "publishing" =>
                  /\ after.opportunities # <<>>
                  /\ Len(after.tasks) = Len(after.opportunities)
                  /\ \A k \in DOMAIN after.opportunities :
                        Cardinality({i \in DOMAIN after.tasks :
                            after.tasks[i].signal = after.opportunities[k]}) = 1
                  /\ \A i \in DOMAIN after.tasks : after.tasks[i].pc = "pending"
            /\ workers[w].pc = "publishing" /\ workers'[w].pc # "publishing" =>
                  /\ workers'[w].pc = "sleeping"
                  /\ workers'[w].wake = now + ScanInterval
                  /\ \A i \in DOMAIN before.tasks : before.tasks[i].pc # "pending"
            /\ workers[w].pc = "publishing" /\ workers'[w].pc = "publishing" =>
                  /\ after.opportunities = before.opportunities
                  /\ \A i \in DOMAIN before.tasks :
                        /\ after.tasks[i].signal = before.tasks[i].signal
                        /\ before.tasks[i].pc # "pending" =>
                              after.tasks[i].pc = before.tasks[i].pc
                  /\ Cardinality({i \in DOMAIN before.tasks :
                                     after.tasks[i] # before.tasks[i]}) <= 1

C16_EachSignalPublishedOnce == [][C16_Step]_vars

\* C16 witness: a worker is publishing a batch of two signals; the publish
\* of the first has failed and the publish of the second has been sent.
C16_Witness ==
    \E w \in Workers :
        /\ workers[w].pc = "publishing"
        /\ Len(publishing[w].tasks) = 2
        /\ publishing[w].tasks[1].pc = "failed"
        /\ publishing[w].tasks[2].pc = "sent"

---------------------------------------------------------------------------
(* The workers with crashes: a worker task may end abnormally.             *)

WorkerCrashStopsManager(w) ==
    /\ workers[w].pc \in {"created", "scanning", "publishing", "sleeping", "cooldown"}
    /\ OwnedBy(worker_name(w)) = {}
    /\ workers' = [workers EXCEPT ![w] = [pc |-> "crashed", wake |-> now]]
    /\ publishing' = [publishing EXCEPT ![w] = NoBatch]
    /\ manager' = [manager EXCEPT !.running = FALSE]
    /\ UNCHANGED <<fetchVars, dataVars, now, scoutVars, instances, control,
                   signalVars>>

\* The task of a worker ends abnormally at one of its awaits (lines 99, 106,
\* 109, 114) or before it first runs: an exception that is no Exception
\* (the cancellation of the task) passes the handler of line 111 and ends
\* the coroutine.  The task was made by create_task (line 77) and nothing
\* awaits it: the exception stays in the task.
WorkerCrashes(w) ==
    /\ workers[w].pc \in {"created", "scanning", "publishing", "sleeping", "cooldown"}
    /\ OwnedBy(worker_name(w)) = {}
    /\ workers' = [workers EXCEPT ![w] = [pc |-> "crashed", wake |-> now]]
    /\ publishing' = [publishing EXCEPT ![w] = NoBatch]
    /\ UNCHANGED <<fetchVars, dataVars, now, scoutVars, manager, instances, control,
                   signalVars>>

NextCrash ==
    \/ NextWorker
    \/ \E w \in Workers : WorkerCrashes(w)

SpecCrash == Init /\ [][NextCrash]_vars

\* C15: a crashed worker makes no further step (no further scan), and the
\* step in which a worker crashes changes neither another worker nor the
\* manager, its scouts, and its start and stop calls.
C15_Step ==
    \A w \in Workers :
        /\ workers[w].pc = "crashed" => workers'[w] = workers[w]
        /\ workers'[w].pc = "crashed" /\ workers[w].pc # "crashed" =>
              /\ manager' = manager /\ instances' = instances /\ control' = control
              /\ \A v \in Workers \ {w} :
                    workers'[v] = workers[v] /\ publishing'[v] = publishing[v]

C15_CrashIsLocal == [][C15_Step]_vars

\* C15 witness: a worker has crashed and, with the manager running, the
\* other worker has slept a whole interval since and is in a new scan.
C15_Witness ==
    /\ manager.running
    /\ workers[1].pc = "crashed" /\ workers[2].pc = "scanning"
    /\ workers[2].wake >= workers[1].wake + ScanInterval

---------------------------------------------------------------------------
(* A shutdown in the middle of a cycle: the workers of the manager with    *)
(* the fetch coroutines of their scans.  The clock stands still, so every  *)
(* worker makes one tick.                                                  *)

\* scan() of the market scout has a strategy call a ticker coroutine for an
\* exchange of self.exchanges (market_scout.py lines 115-123, 193-197).
ScanFetches(w, e, s) ==
    /\ workers[w].pc = "scanning" /\ w \in WorkersOf("market")
    /\ e \in instances["market"].exchanges
    /\ BagCardinality(tasks) < MaxTasks
    /\ CallFetchTicker(worker_name(w), e, s)
    /\ UNCHANGED <<scoutVars, managerVars, signalVars>>

\* The request of a ticker coroutine ends.  The exchanges send through the
\* session of the scout (market_scout.py line 80): once cleanup() has closed
\* it (base_scout.py lines 103-104) a request can only fail.
WorkerFetchEnds(r) ==
    IF instances["market"].state = "closed"
    THEN FetchTickerRaises(r)
    ELSE FetchTickerReturns(r, GoodTicker) \/ FetchTickerRaises(r)

NextShutdown ==
    \/ StartScouts
    \/ \E connected \in SUBSET Exchanges : InitializeReturns(connected)
    \/ InitializeRaises
    \/ \E w \in Workers : WorkerLoops(w)
    \/ \E w \in Workers, e \in Exchanges, s \in FreeSymbols : ScanFetches(w, e, s)
    \/ \E r \in Live : AcquireGlobal(r)
    \/ \E r \in Live : AcquireExchange(r)
    \/ \E r \in Live : WorkerFetchEnds(r)
    \/ \E w \in Workers, found \in Batches : ScanReturns(w, found)
    \/ \E w \in Workers, sent \in BOOLEAN :
          \E i \in DOMAIN publishing[w].tasks : PublishEnds(w, i, sent)
    \/ \E w \in Workers : PublishReturns(w)
    \/ \E w \in Workers : TickRaises(w)
    \/ Stop
    \/ CleanupReturns

SpecShutdown == Init /\ [][NextShutdown]_vars

---------------------------------------------------------------------------
(* Signal construction and the new-listing strategy over many cycles.      *)
(* Confidences are in thousandths.                                         *)

\* 1.0, the upper bound of a confidence (base_scout.py line 92).
ConfidenceOne == 1000

max(a, b) == IF a >= b THEN a ELSE b

ClampUpperOnly(confidence) == IF confidence <= ConfidenceOne THEN confidence
                              ELSE ConfidenceOne

\* base_scout.py line 92: min(max(confidence, 0), 1)
Clamp(confidence) ==
    IF max(confidence, 0) <= ConfidenceOne THEN max(confidence, 0)
    ELSE ConfidenceOne

\* create_opportunity, base_scout.py lines 81-99: the signal it returns.
create_opportunity(signal_type, symbol, confidence, data) ==
    [signal_type |-> signal_type, symbol |-> symbol,
     confidence |-> Clamp(confidence), data |-> data]

\* The symbols an exchange may come to list: the common ones, a new pair
\* quoted in USDT, a new pair whose base is USDT, and a new contract that is
\* settled in USDT.
ListingUniverse == Symbols \cup {NewSymbol, "USDT/DAI", "NEW/USDT:USDT"}

\* The text of a symbol, character by character.
Chars(symbol) ==
    CASE symbol = "BTC/USDT" -> <<"B", "T", "C", "/", "U", "S", "D", "T">>
      [] symbol = "ETH/USDT" -> <<"E", "T", "H", "/", "U", "S", "D", "T">>
      [] symbol = "NEW/USDT" -> <<"N", "E", "W", "/", "U", "S", "D", "T">>
      [] symbol = "USDT/DAI" -> <<"U", "S", "D", "T", "/", "D", "A", "I">>
      [] symbol = "NEW/USDT:USDT" ->
            <<"N", "E", "W", "/", "U", "S", "D", "T", ":", "U", "S", "D", "T">>

\* str.endswith
endswith(text, suffix) ==
    /\ Len(text) >= Len(suffix)
    /\ SubSeq(text, Len(text) - Len(suffix) + 1, Len(text)) = suffix

\* line 480: symbol.endswith('/USDT')
QuotedInUSDT(symbol) == endswith(Chars(symbol), <<"/", "U", "S", "D", "T">>)

\* lines 478-491: one new_listing signal, of confidence 0.9, for each added
\* symbol that is quoted in USDT.
RECURSIVE NewListingSignals(_, _)
NewListingSignals(e, added) ==
    IF added = {} THEN <<>>
    ELSE LET s == CHOOSE x \in added : TRUE
             rest == NewListingSignals(e, added \ {s})
         IN  IF QuotedInUSDT(s)
             THEN <<create_opportunity("new_listing", s, 900, [exchange |-> e])>>
                  \o rest
             ELSE rest

StaleCache(e, new_symbols) == market_cache

\* line 496: self.market_cache[exchange_id]['symbols'] = list(new_symbols)
UpdatedCache(e, new_symbols) == [market_cache EXCEPT ![e] = new_symbols]

\* The scans that run _scan_new_listings at the same time: one for each
\* worker of the scout.
MaxScans == 2

\* A scan begins _scan_new_listings: lines 460-470, up to the await of the
\* first exchange's load_markets.
ListingsStart ==
    /\ BagCardinality(tasks) < MaxScans
    /\ CallLoadMarkets("new_listings", ExchangeList[1])
    /\ UNCHANGED <<scoutVars, managerVars, signalVars>>

\* The task of a strategy that is done with exchange r.ex: it awaits the
\* next exchange's load_markets, or the strategy returns.
ListingsNext(r) ==
    IF IndexOf(r.ex) < Len(ExchangeList)
    THEN Replace(r, [r EXCEPT !.ex = ExchangeList[IndexOf(r.ex) + 1], !.t0 = now])
    ELSE Remove(r)

\* load_markets of exchange r.ex answers and exchange.symbols is
\* new_symbols: lines 470-496 run with no await.  Listings are only added.
ListingsAdvance(r, new_symbols) ==
    /\ r \in Live /\ r.kind = "markets" /\ r.owner = "new_listings"
    /\ r.pc = "inflight" /\ r.ex \in responsive
    /\ exchange_symbols[r.ex] \subseteq new_symbols
    /\ LET old_symbols == market_cache[r.ex]
           added == new_symbols \ old_symbols
       IN  /\ created' = created \o NewListingSignals(r.ex, added)
           /\ market_cache' = UpdatedCache(r.ex, new_symbols)
    /\ exchange_symbols' = [exchange_symbols EXCEPT ![r.ex] = new_symbols]
    /\ tasks' = ListingsNext(r)
    /\ UNCHANGED <<semaphore, rate_limiters, cancelled_at, responsive, dataVars,
                   now, ready, builder, strategies, scout, managerVars,
                   volume_history>>

\* load_markets of exchange r.ex raises: lines 498-499 log it and the loop
\* goes on.
ListingsRaises(r) ==
    /\ r \in Live /\ r.kind = "markets" /\ r.owner = "new_listings"
    /\ r.pc = "inflight"
    /\ r.ex \in responsive \/ RequestTimesOut(r)
    /\ tasks' = ListingsNext(r)
    /\ UNCHANGED <<semaphore, rate_limiters, cancelled_at, responsive, dataVars,
                   now, scoutVars, managerVars, signalVars>>

NextListings ==
    \/ ListingsStart
    \/ \E r \in Live, new_symbols \in SUBSET ListingUniverse :
          ListingsAdvance(r, new_symbols)
    \/ \E r \in Live : ListingsRaises(r)

SpecListings == Init /\ [][NextListings]_vars

\* The new_listing signals created so far for a symbol of an exchange.
NewListingCount(e, s) ==
    Cardinality({i \in DOMAIN created :
        /\ created[i].signal_type = "new_listing"
        /\ created[i].symbol = s /\ created[i].data.exchange = e})

\* C17: over any number of cycles, concurrent or one after the other, with
\* listings only added: exactly one new_listing signal exists for a symbol
\* of an exchange if a cycle found the symbol listed there that the cache
\* did not hold before and the symbol ends in /USDT, and none otherwise.
C17_OneSignalPerListing ==
    \A e \in Exchanges, s \in ListingUniverse :
        NewListingCount(e, s) =
            IF s \in market_cache[e] \ Symbols /\ QuotedInUSDT(s) THEN 1 ELSE 0

\* C17 witness: both exchanges have listed all the new symbols and the cycles
\* have seen them, both signals of the pair quoted in USDT exist, and two
\* more cycles are under way.
C17_Witness ==
    /\ \A e \in Exchanges : market_cache[e] = ListingUniverse
    /\ \A e \in Exchanges : NewListingCount(e, NewSymbol) = 1
    /\ BagCardinality(tasks) = MaxScans

---------------------------------------------------------------------------
(* The evaluation of a price matrix by the arbitrage strategy, for every   *)
(* pair of quotes of one symbol on two exchanges.  Prices are in           *)
(* hundredths.                                                             *)

QuotePrices == {10000, 10010, 10015, 10030, 10040, 10500}

\* An entry of the price matrix (lines 232-238) with the given bid and ask.
Quote(bid, ask) ==
    [bid |-> bid, ask |-> ask, volume |-> 1000, last |-> bid, change |-> 0]

\* The matrices _build_price_matrix may return for the first common symbol,
\* which one exchange or both quote; the exchange configured first has the
\* lower 24 h volume.
QuoteMatrices ==
    {[s \in {SymbolList[1]} |->
         [e \in quoting |->
             [Quote(bids[e], asks[e]) EXCEPT
                 !.volume = IF e = ExchangeList[1] THEN 1000 ELSE 2000]]] :
        quoting \in (SUBSET Exchanges) \ {{}},
        bids \in [Exchanges -> QuotePrices], asks \in [Exchanges -> QuotePrices]}

\* _build_price_matrix has returned a matrix to the strategy (line 143).
InitArbitrage ==
    /\ InitFetch
    /\ responsive = Exchanges
    /\ InitData
    /\ now = 0
    /\ ready = <<>>
    /\ exchange_symbols = [e \in Exchanges |-> Symbols]
    /\ \E matrix \in QuoteMatrices :
          builder = [pc |-> "returned", task_info |-> <<>>, results |-> <<>>,
                     price_matrix |-> matrix]
    /\ strategies = [n \in Strategies |->
                        [pc |-> IF n = "arbitrage" THEN "waiting" ELSE "idle",
                         signals |-> {}]]
    /\ scout = [pc |-> "gathering", scan_count |-> 1, opportunities |-> {},
                error_count |-> 0]
    /\ InitManager
    /\ InitSignals

\* lines 146-183: the strategy evaluates the matrix and returns.
ArbitrageEvaluates ==
    /\ builder.pc = "returned" /\ strategies["arbitrage"].pc = "waiting"
    /\ strategies' = [strategies EXCEPT !["arbitrage"] =
                         ArbitrageOutcome(builder.price_matrix)]
    /\ UNCHANGED <<fetchVars, dataVars, now, ready, exchange_symbols, builder,
                   scout, managerVars, signalVars>>

NextArbitrage == ArbitrageEvaluates

SpecArbitrage == InitArbitrage /\ [][NextArbitrage]_vars

\* The condition of emission with a fee of 0.1% on each of the two legs:
\* bestBid > bestAsk and profitPct - 2 * feeRate > minProfitThreshold, in
\* thousandths of the ask, the threshold being self.min_profit_pct (0.1%).
C18_NetProfit(prices) ==
    LET bid == prices[BestBid(prices)].bid
        ask == prices[BestAsk(prices)].ask
    IN  /\ bid > ask
        /\ (bid - ask) * 1000 - 2 * 1 * ask > MinProfitPerMille * ask

\* C18: for a symbol with two quotes, the strategy returns an arbitrage
\* signal if and only if bestBid > bestAsk and the profit net of the fees of
\* both legs exceeds the threshold.
C18_EmitIffNetProfit ==
    strategies["arbitrage"].pc = "returned" =>
        \A s \in DOMAIN builder.price_matrix :
            Cardinality(DOMAIN builder.price_matrix[s]) >= 2 =>
                ((\E sig \in strategies["arbitrage"].signals : sig[2] = s)
                    <=> C18_NetProfit(builder.price_matrix[s]))

---------------------------------------------------------------------------
(* _analyze_volume_spike over many cycles for one pair: the lookup of the  *)
(* ticker (a cache hit, a fetch or a failure) and the evaluation of its    *)
(* volume against the stored samples.                                      *)

\* line 294: fewer than 10 samples are only stored; line 302: the average
\* is over the last 10.
MinSamples == 10

\* The most signals the strategy creates here.
MaxCreated == 2

\* A ticker with the given 24 h volume and price change.
VolumeTicker(volume, change) ==
    [GoodTicker EXCEPT !.baseVolume = volume, !.percentage = change]

\* The answers of fetch_ticker: no volume, the usual volume, three times and
\* three and a half times the usual volume, the last also from an exchange
\* that gives no price change (None, which line 236 copies as it is).
VolumeTickers ==
    {VolumeTicker(v, 0) : v \in {0, 100, 300, 350}}
        \cup {VolumeTicker(350, NotANumber)}

\* history[-10:]
LastSamples(history) ==
    IF Len(history) <= MinSamples THEN history
    ELSE SubSeq(history, Len(history) - MinSamples + 1, Len(history))

RECURSIVE SumVolumes(_)
SumVolumes(history) ==
    IF history = <<>> THEN 0
    ELSE Head(history).volume + SumVolumes(Tail(history))

\* lines 302-309: volume_ratio = current_volume / avg_volume >= 3, the
\* average being the mean of the last samples (0 if it is not positive).
IsSpike(history, current_volume) ==
    LET samples == LastSamples(history)
    IN  /\ SumVolumes(samples) > 0
        /\ current_volume * Len(samples) >= 3 * SumVolumes(samples)

\* line 314: min(0.5 + (volume_ratio - 3) * 0.1, 0.9), in thousandths.
SpikeConfidence(history, current_volume) ==
    LET samples == LastSamples(history)
        raw == 500 + (100 * current_volume * Len(samples)
                         - 300 * SumVolumes(samples)) \div SumVolumes(samples)
    IN  IF raw <= 900 THEN raw ELSE 900

\* lines 311 and 327: ticker.get('change', 0) is the stored value, the key
\* being always there (line 236), and `price_change > 0` raises TypeError
\* when the value is no number; line 336 catches it and None is returned.
CreationRaises(ticker) == ticker.change = NotANumber

\* _analyze_volume_spike, line 282 to its await of line 286.
CallAnalyzeVolumeSpike(e, s) ==
    /\ tasks = EmptyBag /\ Len(created) < MaxCreated
    /\ CallFetchTicker("lookup", e, s)
    /\ UNCHANGED <<scoutVars, managerVars, signalVars>>

\* _analyze_volume_spike from line 287 to its return, with the ticker the
\* lookup returned.
AnalyzeVolumeSpikeResumes(r) ==
    /\ r \in Live /\ r.owner = "lookup" /\ r.pc = "done"
    /\ tasks' = Remove(r)
    /\ LET key == <<r.sym, r.ex>>
           history == volume_history[key]
       IN  IF r.res = <<>> \/ r.res[1].volume = 0
           THEN UNCHANGED <<volume_history, created>>
           ELSE IF Len(history) < MinSamples
           THEN /\ volume_history' = [volume_history EXCEPT ![key] =
                                         Append(@, [volume |-> r.res[1].volume])]
                /\ UNCHANGED created
           ELSE IF IsSpike(history, r.res[1].volume) /\ ~CreationRaises(r.res[1])
           THEN /\ created' = Append(created,
                      create_opportunity("volume_spike", r.sym,
                          SpikeConfidence(history, r.res[1].volume),
                          [exchange |-> r.ex, current_volume |-> r.res[1].volume]))
                /\ UNCHANGED volume_history
           ELSE UNCHANGED <<volume_history, created>>
    /\ UNCHANGED <<semaphore, rate_limiters, cancelled_at, responsive, dataVars,
                   now, scoutVars, managerVars, market_cache>>

NextVolume ==
    \/ \E s \in FreeSymbols : CallAnalyzeVolumeSpike(ExchangeList[1], s)
    \/ \E r \in Live, ticker \in VolumeTickers : FetchTickerReturns(r, ticker)
    \/ \E r \in Live : exchange_stats[r.ex].errors < MaxErrors /\ FetchTickerRaises(r)
    \/ \E r \in Live : AnalyzeVolumeSpikeResumes(r)
    \/ Tick

SpecVolume == Init /\ [][NextVolume]_vars

\* C19: an evaluation with fewer than 10 stored samples of the pair only
\* stores the sample and creates no signal; an evaluation with 10 stored
\* samples creates a volume_spike signal, of a confidence from 0.5 to 0.9,
\* if and only if the current volume is at least 3 times their average.
C19_Step ==
    \A r \in Live :
        r.owner = "lookup" /\ r.pc = "done" /\ r \notin BagToSet(tasks') =>
            LET history == volume_history[<<r.sym, r.ex>>]
                stored == volume_history'[<<r.sym, r.ex>>]
                has_volume == r.res # <<>> /\ r.res[1].volume # 0
            IN  /\ Len(history) < MinSamples =>
                      /\ created' = created
                      /\ has_volume => stored = Append(history, [volume |-> r.res[1].volume])
                /\ Len(history) >= MinSamples =>
                      /\ stored = history
                      /\ IF has_volume /\ IsSpike(history, r.res[1].volume)
                         THEN /\ Len(created') = Len(created) + 1
                              /\ created'[Len(created')].signal_type = "volume_spike"
                              /\ created'[Len(created')].confidence >= 500
                              /\ created'[Len(created')].confidence <= 900
                         ELSE created' = created

C19_SpikeIffTripleAverage == [][C19_Step]_vars

---------------------------------------------------------------------------
(* create_opportunity called by the strategies with any confidence: each    *)
(* call returns a signal, which is kept in `created`.                       *)

\* The confidences the callers compute, in thousandths: below 0, the two
\* bounds and their neighbours, between the bounds, and above 1.
ConfidenceInputs == {-1500, -1, 0, 1, 500, 900, 999, 1000, 1001, 2500}

\* The signal types of the callers.
SignalTypes == {"arbitrage", "volume_spike"}

\* A strategy calls create_opportunity with the confidence it computed from
\* its measure, which it also puts in the data of the signal.
CreateOpportunity(signal_type, symbol, confidence) ==
    /\ Len(created) < MaxCreated
    /\ created' = Append(created,
           create_opportunity(signal_type, symbol, confidence,
                              [value |-> confidence]))
    /\ UNCHANGED <<fetchVars, dataVars, now, scoutVars, managerVars,
                   market_cache, volume_history>>

NextSignal ==
    \E signal_type \in SignalTypes, symbol \in FreeSymbols,
       confidence \in ConfidenceInputs :
        CreateOpportunity(signal_type, symbol, confidence)

SpecSignal == Init /\ [][NextSignal]_vars

\* C20: every call of create_opportunity returns a signal, whatever the
\* confidence passed, and the confidence of the signal is the one passed if
\* it is from 0 to 1, 0 if it is below 0 and 1 if it is above 1.
C20_Step ==
    /\ Len(created') = Len(created) + 1
    /\ SubSeq(created', 1, Len(created)) = created
    /\ LET signal == created'[Len(created')]
       IN  /\ signal.confidence >= 0
           /\ signal.confidence <= ConfidenceOne
           /\ signal.data.value < 0 => signal.confidence = 0
           /\ signal.data.value > ConfidenceOne => signal.confidence = ConfidenceOne
           /\ (signal.data.value >= 0 /\ signal.data.value <= ConfidenceOne)
                  => signal.confidence = signal.data.value

C20_ConfidenceClamped == [][C20_Step]_vars

C20_Witness ==
    /\ \E i \in 1..Len(created) :
           created[i].data.value < 0 /\ created[i].confidence = 0
    /\ \E i \in 1..Len(created) :
           created[i].data.value > ConfidenceOne
               /\ created[i].confidence = ConfidenceOne

---------------------------------------------------------------------------
(* Claims about the price history, checked under SpecCache.                *)

\* The lookups of the pair of history key k that fetched a ticker in this
\* step (line 254).
FetchedNow(k) ==
    {r \in BagToSet(tasks') \ Live :
        r.pc = "done" /\ r.via = "fetch" /\ <<r.sym, r.ex>> = k}

\* C21: a price history never holds more than its capacity of samples; a
\* fetch appends its sample at the end and, if the history was full, evicts
\* the oldest one, the others keeping their order; nothing else changes a
\* history.
C21_Step ==
    \A k \in DOMAIN price_history :
        LET before == price_history[k]
            after == price_history'[k]
        IN  /\ Len(after) <= HistoryCap
            /\ IF FetchedNow(k) = {} THEN after = before
               ELSE \E r \in FetchedNow(k) :
                        LET sample == [price |-> r.res[1].last, timestamp |-> r.t0]
                        IN  after = IF Len(before) < HistoryCap
                                    THEN Append(before, sample)
                                    ELSE Append(Tail(before), sample)

C21_HistoryIsFifoWindow == [][C21_Step]_vars

\* C21 witness: a full history whose oldest sample, taken at instant 0, has
\* been evicted.
C21_Witness ==
    \E k \in DOMAIN price_history :
        /\ Len(price_history[k]) = HistoryCap
        /\ price_history[k][1].timestamp > 0
        /\ price_history[k][HistoryCap].timestamp > price_history[k][1].timestamp

---------------------------------------------------------------------------
(* Claims about the stored samples, checked under SpecScan.                *)

\* C22: no step stores malformed data: after every step each snapshot in
\* the price matrix has a positive bid, ask, last price and volume, and a
\* sample appended to a price history or to a volume history in the step has
\* a positive price or volume (a field that is not a number is not positive).
C22_Step ==
    /\ \A s \in DOMAIN builder'.price_matrix :
          \A e \in DOMAIN builder'.price_matrix[s] :
              LET snapshot == builder'.price_matrix[s][e]
              IN  /\ snapshot.bid > 0 /\ snapshot.ask > 0
                  /\ snapshot.last > 0 /\ snapshot.volume > 0
    /\ \A k \in DOMAIN price_history :
          price_history'[k] # price_history[k] =>
              price_history'[k][Len(price_history'[k])].price > 0
    /\ \A k \in DOMAIN volume_history :
          volume_history'[k] # volume_history[k] =>
              volume_history'[k][Len(volume_history'[k])].volume > 0

C22_NoMalformedStored == [][C22_Step]_vars

---------------------------------------------------------------------------
(* Claims about the life of a worker, checked under SpecWorker.            *)

\* C23: a worker is created only as initialize() of its scout returns
\* normally; it begins a scan only out of its creation or out of a sleep,
\* never while a scan or a publication of its own is in progress, and only
\* while the manager's flag is set, which it no longer is once stop() has
\* begun; a worker that has ended stays ended.
C23_Step ==
    \A n \in ScoutNames : \A w \in WorkersOf(n) :
        /\ workers[w].pc = "none" /\ workers'[w].pc # "none" =>
              /\ workers'[w].pc = "created"
              /\ instances[n].state = "initializing"
              /\ instances'[n].state = "running"
        /\ workers[w].pc # "scanning" /\ workers'[w].pc = "scanning" =>
              /\ workers[w].pc \in {"created", "sleeping", "cooldown"}
              /\ instances[n].state = "running"
              /\ manager.running /\ control.stop = "idle"
        /\ workers[w].pc = "ended" => workers'[w].pc = "ended"
        /\ workers'[w].pc = "ended" /\ workers[w].pc # "ended" =>
              /\ workers[w].pc \in {"created", "sleeping", "cooldown"}
              /\ ~manager.running

C23_WorkerLifecycle == [][C23_Step]_vars

\* C23 witness: stop() has begun, a worker that had completed a tick found
\* the flag cleared after its sleep and ended, and the other worker is still
\* in its sleep.
C23_Witness ==
    /\ ~manager.running /\ control.stop # "idle"
    /\ \E w, v \in Workers :
          /\ workers[w].pc = "ended" /\ workers[w].wake >= ScanInterval
          /\ workers[v].pc = "sleeping"

---------------------------------------------------------------------------
(* Claims about the requests of one scan cycle, checked under SpecScan.    *)

\* The ticker coroutines of the cycle that have sent a request for the pair
\* of exchange e and symbol s and were not refused: those whose request is
\* in flight and those that returned what the exchange answered.
RequestsFor(e, s) ==
    CountIn({r \in Live : /\ r.kind = "ticker" /\ r.ex = e /\ r.sym = s
                          /\ (r.pc = "inflight" \/ r.via = "fetch")})

\* C24: in one scan cycle at most one ticker request is sent for each pair
\* of an exchange and a symbol, whichever strategies look the pair up.
C24_OneRequestPerPair ==
    \A e \in Exchanges, s \in Symbols : RequestsFor(e, s) <= 1

---------------------------------------------------------------------------
(* Claims about the samples of a cycle, checked under SpecMatrix, where the *)
(* arbitrage strategy runs cycle after cycle.                              *)

\* The lookups of the builder for the pair of history key k that return a
\* snapshot in this step, by a cache hit or by a fetch: the snapshots that
\* enter the price matrix of the cycle.
SnapshotsNow(k) ==
    {r \in BagToSet(tasks') \ Live :
        /\ r.owner = "arbitrage" /\ r.pc = "done" /\ r.res # <<>>
        /\ <<r.sym, r.ex>> = k}

\* C25: as a lookup of the builder returns a snapshot, from the cache or
\* from the exchange, the price of the snapshot is appended to the history
\* of its pair, and nothing else appends to a history.
C25_Step ==
    \A k \in DOMAIN price_history :
        IF SnapshotsNow(k) = {} THEN price_history'[k] = price_history[k]
        ELSE \E r \in SnapshotsNow(k) :
                 price_history'[k] =
                     HistoryAppend(price_history[k],
                                   [price |-> r.res[1].last, timestamp |-> r.t0])

C25_SnapshotAppendedOnce == [][C25_Step]_vars

---------------------------------------------------------------------------
(* Claims about the volume baseline, checked under SpecVolume.             *)

\* C26: every evaluation of a pair whose ticker has a volume stores that
\* volume as the newest sample of the pair, after the cold start as well as
\* during it, so that the next evaluation averages the 10 volumes observed
\* last.
C26_Step ==
    \A r \in Live :
        /\ r.owner = "lookup" /\ r.pc = "done" /\ r \notin BagToSet(tasks')
        /\ r.res # <<>> /\ r.res[1].volume # 0
        => LET stored == volume_history'[<<r.sym, r.ex>>]
           IN  /\ stored # <<>>
               /\ stored[Len(stored)] = [volume |-> r.res[1].volume]
               /\ LastSamples(stored) =
                     LastSamples(Append(volume_history[<<r.sym, r.ex>>],
                                        [volume |-> r.res[1].volume]))

C26_BaselineIsRolling == [][C26_Step]_vars

---------------------------------------------------------------------------
(* Claims about a failed fetch, checked under SpecCache.                   *)

\* C27: a lookup whose fetch fails returns None to its caller, adds one to
\* the error counter of its exchange and changes neither the cache nor a
\* history; and a lookup of a pair made after a fetch of it has failed is
\* answered from the cache only if the cache holds an entry of the pair
\* that is younger than cache_ttl.
C27_Step ==
    \A r \in BagToSet(tasks') \ Live :
        /\ r.via = "error" =>
              /\ r.pc = "done" /\ r.res = <<>>
              /\ ticker_cache' = ticker_cache
              /\ price_history' = price_history
              /\ volume_history' = volume_history
              /\ exchange_stats' = [exchange_stats EXCEPT ![r.ex].errors = @ + 1]
        /\ r.via = "cache" /\ exchange_stats[r.ex].errors > 0 =>
              /\ <<r.ex, r.sym>> \in DOMAIN ticker_cache
              /\ now - ticker_cache[<<r.ex, r.sym>>].timestamp < cache_ttl

C27_FailedFetchLeavesNoTrace == [][C27_Step]_vars

---------------------------------------------------------------------------
(* Claims about the rows of the price matrix, checked under SpecArbitrage. *)

\* Every exchange of the row reports the same bid and the same ask.
IdenticalQuotes(prices) ==
    \A e, f \in DOMAIN prices :
        prices[e].bid = prices[f].bid /\ prices[e].ask = prices[f].ask

SignalFor(s) == \E sig \in strategies["arbitrage"].signals : sig[2] = s

C29_TieBreakByVolume ==
    strategies["arbitrage"].pc = "returned" =>
        \A sig \in strategies["arbitrage"].signals :
            LET prices == builder.price_matrix[sig[2]]
                tied == {e \in DOMAIN prices :
                            \A f \in DOMAIN prices : prices[e].ask <= prices[f].ask}
            IN  /\ sig[3] \in tied
                /\ \A f \in tied : prices[sig[3]].volume >= prices[f].volume

---------------------------------------------------------------------------
(* _scan_price_movements over the histories that earlier cycles may have   *)
(* left for the two pairs of the first symbol.                             *)

\* The histories of one pair: up to HistoryCap samples whose prices are any
\* `last` an exchange has answered, 0 included (lines 244-247 store the
\* price unchecked).
MovementHistories ==
    UNION {[1..n -> [price : {0, 98, 100, 101, 102}, timestamp : {0}]] :
              n \in 0..HistoryCap}

\* scan() has created the coroutine of the strategy, which is the next to
\* run (lines 115-123).
InitMovement ==
    /\ InitFetch
    /\ responsive = Exchanges
    /\ ticker_cache = <<>>
    /\ price_history \in [Symbols \X Exchanges -> MovementHistories]
    /\ \A k \in Symbols \X Exchanges :
          k[1] # SymbolList[1] => price_history[k] = <<>>
    /\ exchange_stats = [e \in Exchanges |-> [errors |-> 0]]
    /\ now = 0
    /\ ready = <<Coro("strategy", "price_movements", "", "")>>
    /\ exchange_symbols = [e \in Exchanges |-> Symbols]
    /\ builder = IdleBuilder
    /\ strategies = [n \in Strategies |->
                        [pc |-> IF n = "price_movements" THEN "created" ELSE "idle",
                         signals |-> {}]]
    /\ scout = [pc |-> "gathering", scan_count |-> 1, opportunities |-> {},
                error_count |-> 0]
    /\ InitManager
    /\ InitSignals

NextMovement == StartPriceMovements

SpecMovement == InitMovement /\ [][NextMovement]_vars

\* The condition of the claim for a history: at least MoveWindow samples
\* and, over the last MoveWindow of them, |latest - first| / first >= 2%.
C30_Moved(h) ==
    /\ Len(h) >= MoveWindow
    /\ LET first == h[Len(h) - MoveWindow + 1].price
           latest == h[Len(h)].price
       IN  /\ first > 0
           /\ \/ (latest - first) * 100 >= MovePct * first
              \/ (first - latest) * 100 >= MovePct * first

\* C30: once the strategy has run, it has returned a price_movement signal
\* for exactly the pairs whose history meets the condition.
C30_SignalIffMoved ==
    strategies["price_movements"].pc # "created" =>
        \A k \in DOMAIN price_history :
            (<<"price_movement", k[1], k[2]>> \in strategies["price_movements"].signals)
                <=> C30_Moved(price_history[k])


---------------------------------------------------------------------------
(* One call of scan() under a fair event loop: the loop runs every         *)
(* coroutine that is ready, a waiter on a semaphore with a free permit is  *)
(* woken, and every request in flight ends (by an answer or by raising).   *)

\* A scout in its first cycle: no sample and no snapshot yet.
InitCycle ==
    /\ InitScan
    /\ ticker_cache = <<>>

\* A request in flight ends: a ticker request by its answer or by raising,
\* an order-book request and a market reload either way.
RequestEnds ==
    \/ \E r \in Live : FetchTickerReturns(r, TickerOf(r.ex))
    \/ \E r \in Live : FetchTickerRaises(r)
    \/ \E r \in Live : OrderbookEnds(r, FALSE)
    \/ \E r \in Live : NewListingsAdvances(r, FALSE)

NextCycle ==
    \/ ScanStart
    \/ StartArbitrage
    \/ StartVolume
    \/ StartPriceMovements
    \/ StartOrderbook
    \/ StartNewListings
    \/ RunTickerCoro
    \/ RunOrderbookCoro
    \/ \E r \in Live : AcquireGlobal(r)
    \/ \E r \in Live : AcquireExchange(r)
    \/ \E r \in Live : AcquireGlobalOrderbook(r)
    \/ RequestEnds
    \/ ArbitrageResumes
    \/ VolumeResumes
    \/ OrderbookResumes
    \/ ScanResumes

SpecCycle == InitCycle /\ [][NextCycle]_vars

SpecCycleFair ==
    /\ SpecCycle
    /\ WF_vars(StartArbitrage)
    /\ WF_vars(StartVolume)
    /\ WF_vars(StartPriceMovements)
    /\ WF_vars(StartOrderbook)
    /\ WF_vars(StartNewListings)
    /\ WF_vars(RunTickerCoro)
    /\ WF_vars(RunOrderbookCoro)
    /\ WF_vars(\E r \in Live : AcquireGlobal(r))
    /\ WF_vars(\E r \in Live : AcquireExchange(r))
    /\ WF_vars(\E r \in Live : AcquireGlobalOrderbook(r))
    /\ WF_vars(RequestEnds)
    /\ WF_vars(ArbitrageResumes)
    /\ WF_vars(VolumeResumes)
    /\ WF_vars(OrderbookResumes)
    /\ WF_vars(ScanResumes)

PermitWaiters == CountIn({r \in Live : r.pc \in {"waitGlobal", "waitExchange"}})

\* C31: the permit protocol cannot deadlock: when every request in flight
\* ends, the tasks that wait for a permit are all admitted in the end and a
\* scan cycle that has begun returns.
C31_NoPermitDeadlock ==
    /\ (PermitWaiters > 0) ~> (PermitWaiters = 0)
    /\ (scout.pc = "gathering") ~> (scout.pc = "returned")

\* C31 witness: a cycle in which both semaphores are exhausted: a ticker task
\* waits inside the global semaphore for the permit of its exchange while
\* another task waits for the global permit.
C31_Witness ==
    /\ scout.pc = "gathering"
    /\ semaphore = 0
    /\ WaitersGlobal > 0
    /\ \E e \in Exchanges : WaitersOf(e) > 0 /\ rate_limiters[e] = 0

---------------------------------------------------------------------------
(* Claims about the permits once the fetches have ended, under Spec.       *)

FetchInProgress ==
    \E r \in Live : /\ r.kind \in {"ticker", "orderbook"}
                    /\ r.pc \in {"waitGlobal", "waitExchange", "inflight"}

\* C32: every permit a ticker or order-book fetch has taken is returned when
\* the fetch ends, by an answer, by raising or by cancellation: the free
\* permits and the permits of the fetches in progress add up to the capacity
\* of each semaphore, and while no fetch is in progress every permit of the
\* global and of each per-exchange semaphore is free.
C32_PermitsReturned ==
    /\ semaphore + HoldersGlobal = GlobalLimit
    /\ \A e \in Exchanges : rate_limiters[e] + HoldersOf(e) = ExchangeLimit
    /\ ~FetchInProgress =>
          /\ semaphore = GlobalLimit
          /\ \A e \in Exchanges : rate_limiters[e] = ExchangeLimit

\* C32 witness: no fetch is in progress after a ticker fetch succeeded (the
\* cache holds its snapshot) and ticker fetches of each exchange raised.
C32_Witness ==
    /\ ~FetchInProgress
    /\ ticker_cache # <<>>
    /\ \A e \in Exchanges : exchange_stats[e].errors > 0

\* C33: a global permit is held only by a task whose request is in flight, so
\* a ticker task for an exchange with a free per-exchange permit waits for
\* the global permit only while as many requests as the global limit are in
\* flight.
C33_GlobalPermitOnlyInFlight ==
    \A r \in Live :
        /\ r.kind = "ticker" /\ r.pc = "waitGlobal"
        /\ rate_limiters[r.ex] > 0
        /\ TotalInFlight < GlobalLimit
        => semaphore > 0

---------------------------------------------------------------------------
(* The ticker cache under concurrent lookups and a moving clock: each      *)
(* worker of the shared scout instance awaits one lookup at a time.        *)

\* line 92: the capacity of a per-exchange limiter (10), scaled down to the
\* smallest one that lets two requests for one pair be in flight together.
OverlapLimit == 2

InitOverlap ==
    /\ tasks = EmptyBag
    /\ semaphore = GlobalLimit
    /\ rate_limiters = [e \in Exchanges |-> OverlapLimit]
    /\ cancelled_at = {}
    /\ responsive = Exchanges
    /\ InitData
    /\ now = 0
    /\ InitScout
    /\ InitManager
    /\ InitSignals

\* No lookup waits for a permit here: there are at most as many lookups as
\* workers, and each semaphore has a permit for each of them.
NextOverlap ==
    \/ /\ BagCardinality(tasks) < Cardinality(Workers)
       /\ BagCardinality(tasks) < GlobalLimit
       /\ \E e \in Exchanges, s \in FreeSymbols : CallLookup(e, s)
    \/ \E r \in Live : FetchTickerReturns(r, GoodTicker)
    \/ \E r \in Live : exchange_stats[r.ex].errors < MaxErrors /\ FetchTickerRaises(r)
    \/ \E r \in Live : LookupReturns(r)
    \/ Tick

SpecOverlap == InitOverlap /\ [][NextOverlap]_vars

\* C34: the capture timestamp stored for a cache key never moves backwards,
\* also when two fetches for the key overlap.
C34_Step ==
    \A k \in DOMAIN ticker_cache :
        /\ k \in DOMAIN ticker_cache'
        /\ ticker_cache'[k].timestamp >= ticker_cache[k].timestamp

C34_TimestampMonotonic == [][C34_Step]_vars

---------------------------------------------------------------------------
(* Further claims about the evaluation of a price matrix, under            *)
(* SpecArbitrage.                                                          *)

\* C35: every arbitrage signal names two different exchanges: the exchange
\* it buys on (line 167, the lowest ask) is never the one it sells on (line
\* 168, the highest bid), also when one exchange reports a bid above its ask.
C35_TwoDifferentExchanges ==
    \A sig \in strategies["arbitrage"].signals :
        LET buy_exchange == sig[3]
            sell_exchange == BestBid(builder.price_matrix[sig[2]])
        IN  buy_exchange # sell_exchange

---------------------------------------------------------------------------
(* The workers of one scout type share the scout instance, so their scans  *)
(* run _scan_new_listings on one market cache: under SpecListings.         *)

\* C36: with several workers scanning at once on the shared instance, a
\* newly listed symbol yields one new_listing signal per exchange in total:
\* a reload that resumes creates the signal exactly if the cache of the
\* exchange did not hold the symbol, and the cache holds it from then on.
C36_Step ==
    \A e \in Exchanges :
        NewListingCount(e, NewSymbol)' =
            NewListingCount(e, NewSymbol) +
                (IF NewSymbol \in market_cache'[e] \ market_cache[e] THEN 1 ELSE 0)

C36_OneSignalAcrossWorkers ==
    /\ [](\A e \in Exchanges : NewListingCount(e, NewSymbol) <= 1)
    /\ [][C36_Step]_vars

\* C36 witness: the scans of both workers have reloaded the first exchange,
\* which lists the new symbol, and await the reload of the second one; one
\* signal exists for the first exchange.
C36_Witness ==
    /\ BagCardinality(tasks) = MaxScans
    /\ \A r \in Live : r.kind = "markets" /\ r.ex = ExchangeList[2]
    /\ NewSymbol \in market_cache[ExchangeList[1]]
    /\ NewListingCount(ExchangeList[1], NewSymbol) = 1

---------------------------------------------------------------------------
(* Scan cycles one after the other, for the price-movement strategy and    *)
(* the ticker lookup of one pair: gather runs the strategy, which has no   *)
(* await, before the lookup that a cycle makes (lines 115-123), and the    *)
(* clock moves between the steps.                                          *)

MaxCycles == 4

\* The answers of an exchange over time: its last price changes.
TickerAnswers == {GoodTicker, HighTicker}

\* scan() begins a cycle that looks up the pair (e, s).
ScanPairCycle(e, s) ==
    /\ scout.pc \in {"idle", "returned"}
    /\ scout.scan_count < MaxCycles
    /\ scout' = [scout EXCEPT !.pc = "gathering", !.scan_count = @ + 1]
    /\ strategies' = [strategies EXCEPT !["price_movements"] =
                         [pc |-> "created", signals |-> {}]]
    /\ ready' = <<Coro("strategy", "price_movements", "", ""),
                  Coro("ticker", "lookup", e, s)>>
    /\ UNCHANGED <<fetchVars, dataVars, now, exchange_symbols, builder,
                   managerVars, signalVars>>

\* The lookup and the strategy have ended: scan() returns the signals of
\* the cycle (lines 125-136).
PairCycleReturns(r) ==
    /\ scout.pc = "gathering"
    /\ r \in Live /\ r.owner = "lookup" /\ r.pc = "done"
    /\ strategies["price_movements"].pc \in {"returned", "raised"}
    /\ tasks' = Remove(r)
    /\ scout' = [scout EXCEPT !.pc = "returned",
                              !.opportunities = Collected({"price_movements"})]
    /\ UNCHANGED <<semaphore, rate_limiters, cancelled_at, responsive, dataVars,
                   now, ready, exchange_symbols, builder, strategies,
                   managerVars, signalVars>>

NextRepeat ==
    \/ \E e \in Exchanges, s \in FreeSymbols : ScanPairCycle(e, s)
    \/ StartPriceMovements
    \/ RunTickerCoro
    \/ \E r \in Live, t \in TickerAnswers : FetchTickerReturns(r, t)
    \/ \E r \in Live : exchange_stats[r.ex].errors < MaxErrors /\ FetchTickerRaises(r)
    \/ \E r \in Live : PairCycleReturns(r)
    \/ Tick

SpecRepeat == Init /\ [][NextRepeat]_vars

\* C37: one window of samples is signalled at most once: a cycle in which
\* no sample was appended to the history of a pair (its lookup was a cache
\* hit or failed) does not return the price_movement signal that the cycle
\* before it has returned for the pair.
C37_NoSignalWithoutNewSample ==
    \A r \in Live :
        /\ r.owner = "lookup" /\ r.pc = "done" /\ r.via \in {"cache", "error"}
        /\ strategies["price_movements"].pc = "returned"
        /\ <<"price_movement", r.sym, r.ex>> \in scout.opportunities
        => <<"price_movement", r.sym, r.ex>>
               \notin strategies["price_movements"].signals


---------------------------------------------------------------------------
(* A further claim about _scan_price_movements, under SpecMovement.        *)

\* The history holds a sample whose price is zero.
HasZeroPrice(h) == \E i \in DOMAIN h : h[i].price = 0

\* C38: a sample with a zero price in the history of one pair does not
\* suppress the detection for the other pairs: once the strategy has run in
\* a cycle, every other pair whose last samples move by at least 2% has its
\* price_movement signal.
C38_BadSampleDoesNotSuppress ==
    strategies["price_movements"].pc # "created" =>
        \A bad \in DOMAIN price_history :
            HasZeroPrice(price_history[bad]) =>
                \A k \in DOMAIN price_history \ {bad} :
                    C30_Moved(price_history[k]) =>
                        <<"price_movement", k[1], k[2]>>
                            \in strategies["price_movements"].signals

---------------------------------------------------------------------------
(* The manager's tasks after stop(): the workers and the monitor task run  *)
(* on, nothing cancels or awaits them (start_scouts keeps them in a local  *)
(* list, line 65).  Once the manager has stopped the clock moves on while  *)
(* a task sleeps.                                                          *)

\* line 123: asyncio.sleep(60)
MonitorInterval == 60

\* How far the clock moves before stop() is called, in cool-downs: far
\* enough for a sleep and a cool-down to end and a second tick to begin.
StopClock == 2

\* The lists of signals a scan() returns: none or one.
ShortBatches == {<<>>, <<"a">>}

\* _monitor_scouts, lines 119-124: `while self.running` when the task first
\* runs and when the sleep of line 123 is over (line 124 logs and awaits
\* nothing).
MonitorLoops ==
    /\ \/ control.monitor.pc = "created"
       \/ control.monitor.pc = "sleeping" /\ now >= control.monitor.wake
    /\ control' = [control EXCEPT !.monitor =
                      IF manager.running
                      THEN [pc |-> "sleeping", wake |-> now + MonitorInterval]
                      ELSE [pc |-> "ended", wake |-> 0]]
    /\ UNCHANGED <<fetchVars, dataVars, now, scoutVars, manager, workers,
                   instances, publishing, signalVars>>

\* A task of the manager sleeps until later than now.
Sleeper ==
    \/ \E w \in Workers : /\ workers[w].pc \in {"sleeping", "cooldown"}
                          /\ workers[w].wake > now
    \/ control.monitor.pc = "sleeping" /\ control.monitor.wake > now

\* The clock moves on while a task of the stopped manager sleeps.
ElapseAfterStop ==
    /\ ~manager.running /\ control.stop # "idle"
    /\ Sleeper
    /\ now' = now + CooldownSeconds
    /\ UNCHANGED <<fetchVars, dataVars, scoutVars, managerVars, signalVars>>

\* The tick of worker w in progress goes on: its scan returns or raises, a
\* publish coroutine ends, publish_opportunities returns.
TickAdvances(w) ==
    \/ \E found \in ShortBatches : ScanReturns(w, found)
    \/ TickRaises(w)
    \/ \E sent \in BOOLEAN :
          \E i \in DOMAIN publishing[w].tasks : PublishEnds(w, i, sent)
    \/ PublishReturns(w)

NextStop ==
    \/ StartScouts
    \/ \E connected \in {{}, Exchanges} : InitializeReturns(connected)
    \/ InitializeRaises
    \/ \E w \in Workers : WorkerLoops(w)
    \/ \E w \in Workers : TickAdvances(w)
    \/ MonitorLoops
    \/ Stop
    \/ CleanupReturns
    \/ now < StopClock * CooldownSeconds /\ Elapse
    \/ ElapseAfterStop

SpecStop == Init /\ [][NextStop]_vars

\* The loop runs every task that can run, every scan and publish in
\* progress ends, and time passes.
SpecStopFair ==
    /\ SpecStop
    /\ WF_vars(\E w \in Workers : WorkerLoops(w))
    /\ WF_vars(\E w \in Workers : TickAdvances(w))
    /\ WF_vars(MonitorLoops)
    /\ WF_vars(CleanupReturns)
    /\ WF_vars(ElapseAfterStop)

TasksEnded ==
    /\ \A w \in Workers : workers[w].pc \in {"none", "ended"}
    /\ control.monitor.pc \in {"none", "ended"}

\* C39: once stop() has been called, every worker task and the monitor task
\* that exist leave their loops and end: a task begins no scan and no sleep
\* of the monitor after the flag is cleared except the tick or sleep it is
\* in, and all of them have ended in the end.
C39_Step ==
    ~manager.running /\ control.stop # "idle" =>
        /\ \A w \in Workers :
              /\ workers'[w].pc = "scanning" => workers[w].pc = "scanning"
              /\ workers[w].pc = "ended" => workers'[w].pc = "ended"
        /\ control'.monitor.pc = "sleeping" => control.monitor.pc = "sleeping"

C39_TasksEndAfterStop ==
    /\ [][C39_Step]_vars
    /\ (control.stop # "idle") ~> TasksEnded

\* C39 witness: stop() has returned and both workers and the monitor task
\* have ended, a worker having met an error in its last tick.
C39_Witness ==
    /\ control.stop = "returned"
    /\ \A w \in Workers : workers[w].pc = "ended"
    /\ control.monitor.pc = "ended"
    /\ manager.errors_count > 0
    /\ now > StopClock * CooldownSeconds
====
